---- MODULE Spec2Model ----
(***************************************************************************)
(* Model of the BELABOX remote-control session of belabot                  *)
(* (src/src/belabox.rs): the connection supervisor run_loop with           *)
(* get_connection and handle_messages, the keepalive ticker spawned per    *)
(* connection, the outbound request gateway handle_requests, and the       *)
(* callers of Belabox::send.                                               *)
(*                                                                         *)
(* The tasks run on tokio's multi-threaded runtime, so a step of one task  *)
(* may fall between any two statements of another. Each action below is    *)
(* one stretch of code of one task. The shared writer Mutex is tokio's     *)
(* fair (first in, first out) mutex: `lock` is its queue of tasks, the     *)
(* head holding the guard.                                                 *)
(***************************************************************************)
EXTENDS Integers, Sequences, FiniteSets, TLC

\* ------------------------------------------------------------------ bounds
\* Connections the remote end accepts in one run of the model.
MaxConns == 2
\* Intents the callers submit in one run of the model.
MaxIntents == 1
\* Waits of one run of failed connection attempts that are recorded.
MaxFails == 6

\* Frames read by one call of handle_messages in one run of the model.
MaxFrames == 2
\* Fields of one inbound frame.
MaxFields == 2
\* Receivers taken from message_stream in one run of the model.
MaxSubs == 1
\* Capacity of the broadcast channel (100 in Belabox::connect), scaled down.
ChanCap == 2
\* Streaming-status events folded while one command's log is kept.
MaxStatus == 1

\* Numerals tried on either side of the limits of a numeric argument.
Margin == 3
\* Interfaces the appliance may report.
MaxNetifs == 3
\* Characters of a name or a query, and candidates of one lookup.
MaxName == 3
MaxCands == 2
\* Notifications shown by one event, and the chat messages and intents sent
\* after which no further event or command is taken.
MaxNotes == 2
MaxOut == 2
\* events the task that folds them into the cache takes off the channel
MaxEvents == 3
\* interface tables the appliance reports
MaxTables == 3
\* sensors events Monitor::ups is called with
MaxReadings == 4

Conns == 1..MaxConns
Intents == 1..MaxIntents
Subs == 1..MaxSubs

VARIABLES
    sup_pc,        \* run_loop: where the supervisor task is
    retry_grow,    \* get_connection: its local retry_grow (0 outside the function)
    waits,         \* the seconds slept, in order, since the last successful open
    nconn,         \* connections opened so far; the supervisor's current one is nconn
    request_write, \* Arc<Mutex<Option<Writer>>>: 0 is None, c is Some(writer of c)
    lock,          \* the tasks queued on the request_write Mutex, the head holds it
    ticker,        \* keepalive task of each connection: [pc, cancel]
    gw_pc,         \* handle_requests: where the gateway task is
    gw_req,        \* handle_requests: the request it took from inner_rx (0: none)
    inner_rx,      \* the unbounded mpsc channel of InnerMessage
    nsub,          \* intents handed to Belabox::send so far
    sub_w,         \* per intent: request_write at the moment of Belabox::send
    seen_w,        \* per intent: request_write when the gateway took the lock for it
    written_to,    \* per intent: the connection its frame was written on (0: none)
    outcome,       \* per intent: what its oneshot slot received, in order
    first_frame,   \* per connection: kind of the first frame written on it
    ended_by,      \* why the setup or message loop of connection nconn ended
    wrerr          \* a gateway or keepalive write on the installed writer failed

\* The inbound side of one connection: handle_messages, the broadcast channel
\* and the tasks that read a Receiver of it.
VARIABLES
    hm_pc,         \* handle_messages: "read", "field", "closed" (Ok) or "ended" (Err)
    hm_frame,      \* handle_messages: the fields of the frame still to iterate
    nframes,       \* frames read so far
    last_read,     \* what the last frame read was
    seen,          \* the fields of every object frame read, in order received
    sent,          \* positions in `seen` of the events given to message_tx.send
    rx             \* per receiver: [st, queue, got, lag, from]

\* The command handler and the cache of the appliance state.
VARIABLES
    bela_state,    \* RwLock<BelaState>: [online, is_streaming, restart, config]
    ch_pc,         \* CommandHandler::run: where the handler task is
    ch_cmd,        \* the command it is running: [kind, arg]
    ch_streaming,  \* the command's local is_streaming
    ch_found,      \* pipeline, audio_src: whether the lookup finds an entry
    log            \* what went out since the command was taken, and status folds

\* The text of a request, and the lock of the cache with the tasks that
\* write through it.
VARIABLES
    ser_req,       \* Belabox::send: the Request it was given
    ser_msg,       \* Belabox::send: the message it made of it, a sequence of tokens
    bs_writer,     \* RwLock<BelaState>: the task that holds the write guard
    nt_pc,         \* the notification branch: "idle", "loop" or "send"
    nt_left,       \* notifications of the event still to go through
    rs_pc,         \* restart: "idle", "locked", "stop" or "reboot"
    up_pc,         \* Monitor::ups: "idle", "locked" or "send"
    went_out       \* the chat messages and intents sent, by the task that sent them

\* The task that folds the events into the cache, and the monitor.
VARIABLES
    upd_pc,        \* handle_belabox_messages: "recv", or "locked" under the write guard
    upd_ev,        \* handle_belabox_messages: the event it is folding
    ev_log,        \* the events whose arm of the match has run, in order
    real_netif,    \* the interface table of the appliance itself
    net_evs,       \* the interface tables the appliance has reported, in order
    up_n,          \* how many of them handle_belabox_messages has stored
    mo_n,          \* how many of them Monitor::run has given to modems
    announced,     \* modems: per table, the interfaces it announced
    notify_ups,    \* BelaState.notify_ups: <<>> is None, <<b>> is Some(b)
    readings,      \* the sensors events Monitor::ups was called with, in order
    notices        \* ups: per reading, the notice it sent ("none" if none)

sessVars == <<sup_pc, retry_grow, waits, nconn, request_write, lock, ticker,
              gw_pc, gw_req, inner_rx, nsub, sub_w, seen_w, written_to, outcome,
              first_frame, ended_by, wrerr>>
dispVars == <<hm_pc, hm_frame, nframes, last_read, seen, sent, rx>>
cmdVars == <<bela_state, ch_pc, ch_cmd, ch_streaming, ch_found, log>>

auxVars == <<ser_req, ser_msg, bs_writer, nt_pc, nt_left, rs_pc, up_pc, went_out>>
updVars == <<upd_pc, upd_ev, ev_log>>
raceVars == <<net_evs, up_n, mo_n, announced>>
upsVars == <<notify_ups, readings, notices>>
monVars == <<updVars, real_netif, raceVars, upsVars>>

vars == <<sessVars, dispVars, cmdVars, auxVars, monVars>>

supVars == <<sup_pc, retry_grow, waits, nconn>>
gwVars == <<gw_pc, gw_req, inner_rx, seen_w, written_to, outcome>>
cliVars == <<nsub, sub_w>>

\* ------------------------------------------------------------- task names
SUP == <<"sup", 0>>
GW == <<"gw", 0>>
KA(c) == <<"ka", c>>

\* ------------------------------------------------------------ pure helpers
RECURSIVE Shl(_, _)
\* a << n on integers far from overflow
Shl(a, n) == IF n = 0 THEN a ELSE Shl(2 * a, n - 1)

\* get_connection: retry_grow as the function is entered
RetryGrowKept(r) == r
RetryGrowInit(r) == 1

\* get_connection: the seconds to sleep after a failed attempt
WaitSecs(r) == Shl(1, r)

\* get_connection: retry_grow after the sleep
RetryGrowCap6(r) == IF r < 6 THEN r + 1 ELSE r
RetryGrowNext(r) == IF r < 5 THEN r + 1 ELSE r

\* tokio Mutex: p holds the guard
HoldsLockAny(p) == \E i \in 1..Len(lock) : lock[i] = p
HoldsLock(p) == lock /= <<>> /\ Head(lock) = p

\* tokio Mutex: lock() called by p, and the guard dropped by p
Enqueue(p) == Append(lock, p)
Release(p) == SelectSeq(lock, LAMBDA x : x /= p)

\* oneshot::Receiver::try_recv().is_ok() on the ticker's cancel_rx
TryRecvIsOk(cancel) == cancel = "sent"

\* a frame of `kind` written on connection c: remember the first
Wire(c, kind) ==
    IF first_frame[c] = "none" THEN [first_frame EXCEPT ![c] = kind] ELSE first_frame

\* ------------------------------------------------------------------- Init
SessInit ==
    /\ sup_pc = "connect"
    /\ retry_grow = RetryGrowInit(0)
    /\ waits = <<>>
    /\ nconn = 0
    /\ request_write = 0
    /\ lock = <<>>
    /\ ticker = [c \in Conns |-> [pc |-> "none", cancel |-> "open"]]
    /\ gw_pc = "recv"
    /\ gw_req = 0
    /\ inner_rx = <<>>
    /\ nsub = 0
    /\ sub_w = [i \in Intents |-> 0]
    /\ seen_w = [i \in Intents |-> -1]
    /\ written_to = [i \in Intents |-> 0]
    /\ outcome = [i \in Intents |-> <<>>]
    /\ first_frame = [c \in Conns |-> "none"]
    /\ ended_by = "none"
    /\ wrerr = FALSE

\* ------------------------------------------------- supervisor: run_loop
\* run_loop: the step after get_connection returned a stream
AfterOpenNoAuth == "install"
AfterOpenPc == "auth"

\* run_loop: the step after handle_messages returned Err(AuthFailed)
AfterAuthFailedReconnect == "cancel"
AfterAuthFailedPc == "ended"

\* run_loop: the step after the writer was cleared: the loop goes round
AfterClearedStop == "ended"
AfterClearedPc == "connect"

\* get_connection: connect_async returns Ok, the stream is split
SupConnectOk ==
    /\ sup_pc = "connect"
    /\ nconn < MaxConns
    /\ nconn' = nconn + 1
    /\ waits' = <<>>
    /\ retry_grow' = 0
    /\ ended_by' = "none"
    /\ IF AfterOpenPc = "auth"
       THEN sup_pc' = "auth" /\ lock' = lock
       ELSE sup_pc' = "install" /\ lock' = Enqueue(SUP)
    /\ UNCHANGED <<monVars, dispVars, cmdVars, auxVars, request_write, ticker, gwVars, cliVars, first_frame, wrerr>>

\* get_connection: connect_async returns Err, the wait is computed and slept
SupConnectFail ==
    /\ sup_pc = "connect"
    /\ waits' = IF Len(waits) < MaxFails
                THEN Append(waits, WaitSecs(retry_grow))
                ELSE waits
    /\ sup_pc' = "backoff"
    /\ UNCHANGED <<monVars, dispVars, cmdVars, auxVars, retry_grow, nconn, request_write, lock, ticker, gwVars,
                   cliVars, first_frame, ended_by, wrerr>>

\* get_connection: the sleep is over, retry_grow grows, the loop goes round
SupBackoffDone ==
    /\ sup_pc = "backoff"
    /\ retry_grow' = RetryGrowNext(retry_grow)
    /\ sup_pc' = "connect"
    /\ UNCHANGED <<monVars, dispVars, cmdVars, auxVars, waits, nconn, request_write, lock, ticker, gwVars, cliVars,
                   first_frame, ended_by, wrerr>>

\* run_loop: the authentication frame is written on the new connection and
\* request_write.lock() is called to install the writer
SupAuthOk ==
    /\ sup_pc = "auth"
    /\ first_frame' = Wire(nconn, "auth")
    /\ lock' = Enqueue(SUP)
    /\ sup_pc' = "install"
    /\ UNCHANGED <<monVars, dispVars, cmdVars, auxVars, retry_grow, waits, nconn, request_write, ticker, gwVars,
                   cliVars, ended_by, wrerr>>

\* run_loop: writing the authentication frame fails: continue, the stream is
\* dropped and get_connection is entered again
SupAuthErr ==
    /\ sup_pc = "auth"
    /\ ended_by' = "autherr"
    /\ retry_grow' = RetryGrowInit(retry_grow)
    /\ sup_pc' = "connect"
    /\ UNCHANGED <<monVars, dispVars, cmdVars, auxVars, waits, nconn, request_write, lock, ticker, gwVars, cliVars,
                   first_frame, wrerr>>

\* run_loop: *request_write.lock().await = Some(write), the guard is dropped,
\* the cancel channel is made and keepalive is spawned
SupInstall ==
    /\ sup_pc = "install"
    /\ HoldsLock(SUP)
    /\ request_write' = nconn
    /\ wrerr' = FALSE
    /\ lock' = Release(SUP)
    /\ ticker' = [ticker EXCEPT ![nconn] = [pc |-> "sleep", cancel |-> "open"]]
    /\ sup_pc' = "read"
    /\ UNCHANGED <<monVars, dispVars, cmdVars, auxVars, retry_grow, waits, nconn, gwVars, cliVars, first_frame,
                   ended_by>>

\* handle_messages: a frame is read and handled, the loop goes on (a text
\* frame whose events are broadcast, a frame that does not decode, a close
\* frame, a successful authentication result)
SupReadFrame ==
    /\ sup_pc = "read"
    /\ UNCHANGED vars

\* handle_messages: read.next() gives Some(Err(_)): the loop ends, Ok(())
SupReadError ==
    /\ sup_pc = "read"
    /\ ended_by' = "error"
    /\ sup_pc' = "cancel"
    /\ UNCHANGED <<monVars, dispVars, cmdVars, auxVars, retry_grow, waits, nconn, request_write, lock, ticker,
                   gwVars, cliVars, first_frame, wrerr>>

\* handle_messages: read.next() gives None after a clean close: Ok(())
SupReadClosed ==
    /\ sup_pc = "read"
    /\ ended_by' = "close"
    /\ sup_pc' = "cancel"
    /\ UNCHANGED <<monVars, dispVars, cmdVars, auxVars, retry_grow, waits, nconn, request_write, lock, ticker,
                   gwVars, cliVars, first_frame, wrerr>>

\* handle_messages: a RemoteAuth event with auth_key false: Err(AuthFailed).
\* When run_loop breaks, cancel_tx goes out of scope unsent.
SupReadAuthFailed ==
    /\ sup_pc = "read"
    /\ ended_by' = "authfail"
    /\ sup_pc' = AfterAuthFailedPc
    /\ ticker' = IF AfterAuthFailedPc = "ended"
                 THEN [ticker EXCEPT ![nconn].cancel = "dropped"]
                 ELSE ticker
    /\ UNCHANGED <<monVars, dispVars, cmdVars, auxVars, retry_grow, waits, nconn, request_write, lock, gwVars,
                   cliVars, first_frame, wrerr>>

\* run_loop: let _ = cancel_tx.send(()), then request_write.lock() is called
\* to clear the writer
SupCancel ==
    /\ sup_pc = "cancel"
    /\ ticker' = [ticker EXCEPT ![nconn].cancel = "sent"]
    /\ lock' = Enqueue(SUP)
    /\ sup_pc' = "clear"
    /\ UNCHANGED <<monVars, dispVars, cmdVars, auxVars, retry_grow, waits, nconn, request_write, gwVars, cliVars,
                   first_frame, ended_by, wrerr>>

\* run_loop: *request_write.lock().await = None, the guard is dropped, the
\* loop goes round and get_connection is entered again
SupClear ==
    /\ sup_pc = "clear"
    /\ HoldsLock(SUP)
    /\ request_write' = 0
    /\ wrerr' = FALSE
    /\ lock' = Release(SUP)
    /\ retry_grow' = RetryGrowInit(retry_grow)
    /\ sup_pc' = AfterClearedPc
    /\ UNCHANGED <<monVars, dispVars, cmdVars, auxVars, waits, nconn, ticker, gwVars, cliVars, first_frame,
                   ended_by>>

Supervisor ==
    \/ SupConnectOk
    \/ SupConnectFail
    \/ SupBackoffDone
    \/ SupAuthOk
    \/ SupAuthErr
    \/ SupInstall
    \/ SupReadFrame
    \/ SupReadError
    \/ SupReadClosed
    \/ SupReadAuthFailed
    \/ SupCancel
    \/ SupClear

\* ------------------------------------------------ keepalive ticker of c
\* keepalive: the 5 second sleep is over and cancel_rx is tried
TickerWake(c) ==
    /\ ticker[c].pc = "sleep"
    /\ ticker' = [ticker EXCEPT ![c].pc =
                     IF TryRecvIsOk(ticker[c].cancel) THEN "done" ELSE "lockreq"]
    /\ UNCHANGED <<monVars, dispVars, cmdVars, auxVars, supVars, request_write, lock, gwVars, cliVars, first_frame,
                   ended_by, wrerr>>

\* keepalive: write.lock() is called
TickerLockReq(c) ==
    /\ ticker[c].pc = "lockreq"
    /\ lock' = Enqueue(KA(c))
    /\ ticker' = [ticker EXCEPT ![c].pc = "wait"]
    /\ UNCHANGED <<monVars, dispVars, cmdVars, auxVars, supVars, request_write, gwVars, cliVars, first_frame,
                   ended_by, wrerr>>

\* keepalive: the guard is held and the Option is looked at: Some(w) starts
\* the write under the guard, None drops the guard and sleeps again
TickerAcquire(c) ==
    /\ ticker[c].pc = "wait"
    /\ HoldsLock(KA(c))
    /\ IF request_write /= 0
       THEN /\ ticker' = [ticker EXCEPT ![c].pc = "write"]
            /\ lock' = lock
       ELSE /\ ticker' = [ticker EXCEPT ![c].pc = "sleep"]
            /\ lock' = Release(KA(c))
    /\ UNCHANGED <<monVars, dispVars, cmdVars, auxVars, supVars, request_write, gwVars, cliVars, first_frame,
                   ended_by, wrerr>>

\* keepalive: w.send(keepalive) returns Ok, the guard is dropped
TickerWriteOk(c) ==
    /\ ticker[c].pc = "write"
    /\ request_write /= 0
    /\ first_frame' = Wire(request_write, "keepalive")
    /\ lock' = Release(KA(c))
    /\ ticker' = [ticker EXCEPT ![c].pc = "sleep"]
    /\ UNCHANGED <<monVars, dispVars, cmdVars, auxVars, supVars, request_write, gwVars, cliVars, ended_by, wrerr>>

\* keepalive: w.send(keepalive) returns Err: break, the guard is dropped
TickerWriteErr(c) ==
    /\ ticker[c].pc = "write"
    /\ request_write /= 0
    /\ wrerr' = TRUE
    /\ lock' = Release(KA(c))
    /\ ticker' = [ticker EXCEPT ![c].pc = "done"]
    /\ UNCHANGED <<monVars, dispVars, cmdVars, auxVars, supVars, request_write, gwVars, cliVars, first_frame,
                   ended_by>>

Keepalive ==
    \E c \in Conns :
        \/ TickerWake(c)
        \/ TickerLockReq(c)
        \/ TickerAcquire(c)
        \/ TickerWriteOk(c)
        \/ TickerWriteErr(c)

\* -------------------------------------------- gateway: handle_requests
\* handle_requests: what the slot receives when the Option is None
RespondNoWriterOk == "ok"
RespondNoWriter == "disconnected"

\* handle_requests: request.respond.send(res) on the request's oneshot slot
ResolveDropped(slot, res) == slot
Resolve(slot, res) == Append(slot, res)

\* handle_requests: the writer the frame of a request is sent on
WriterStale(w) == IF w > 1 THEN w - 1 ELSE w
WriterUsed(w) == w

\* Belabox::send: the InnerMessage is put on the channel, the caller awaits rx
Submit ==
    /\ nsub < MaxIntents
    /\ nsub' = nsub + 1
    /\ inner_rx' = Append(inner_rx, nsub + 1)
    /\ sub_w' = [sub_w EXCEPT ![nsub + 1] = request_write]
    /\ UNCHANGED <<monVars, dispVars, cmdVars, auxVars, supVars, request_write, lock, ticker, gw_pc, gw_req, seen_w,
                   written_to, outcome, first_frame, ended_by, wrerr>>

\* handle_requests: inner_rx.recv() gives the next request and write.lock()
\* is called
GwRecv ==
    /\ gw_pc = "recv"
    /\ inner_rx /= <<>>
    /\ gw_req' = Head(inner_rx)
    /\ inner_rx' = Tail(inner_rx)
    /\ lock' = Enqueue(GW)
    /\ gw_pc' = "wait"
    /\ UNCHANGED <<monVars, dispVars, cmdVars, auxVars, supVars, request_write, ticker, cliVars, seen_w, written_to,
                   outcome, first_frame, ended_by, wrerr>>

\* handle_requests: the guard is held and the Option is looked at: Some(w)
\* starts the write under the guard, None answers the slot and drops the guard
GwAcquire ==
    /\ gw_pc = "wait"
    /\ HoldsLock(GW)
    /\ seen_w' = [seen_w EXCEPT ![gw_req] = request_write]
    /\ IF request_write /= 0
       THEN /\ gw_pc' = "write"
            /\ UNCHANGED <<lock, gw_req, outcome>>
       ELSE /\ outcome' = [outcome EXCEPT ![gw_req] = Resolve(@, RespondNoWriter)]
            /\ lock' = Release(GW)
            /\ gw_req' = 0
            /\ gw_pc' = "recv"
    /\ UNCHANGED <<monVars, dispVars, cmdVars, auxVars, supVars, request_write, ticker, cliVars, inner_rx,
                   written_to, first_frame, ended_by, wrerr>>

\* handle_requests: w.send(frame) returns Ok: the slot gets Ok(()), the guard
\* is dropped at the end of the loop body
GwWriteOk ==
    /\ gw_pc = "write"
    /\ request_write /= 0
    /\ written_to' = [written_to EXCEPT ![gw_req] = WriterUsed(request_write)]
    /\ first_frame' = Wire(WriterUsed(request_write), "intent")
    /\ outcome' = [outcome EXCEPT ![gw_req] = Resolve(@, "ok")]
    /\ lock' = Release(GW)
    /\ gw_req' = 0
    /\ gw_pc' = "recv"
    /\ UNCHANGED <<monVars, dispVars, cmdVars, auxVars, supVars, request_write, ticker, cliVars, inner_rx, seen_w,
                   ended_by, wrerr>>

\* handle_requests: w.send(frame) returns Err: the slot gets Err(Send)
GwWriteErr ==
    /\ gw_pc = "write"
    /\ request_write /= 0
    /\ written_to' = [written_to EXCEPT ![gw_req] = WriterUsed(request_write)]
    /\ wrerr' = TRUE
    /\ outcome' = [outcome EXCEPT ![gw_req] = Resolve(@, "send")]
    /\ lock' = Release(GW)
    /\ gw_req' = 0
    /\ gw_pc' = "recv"
    /\ UNCHANGED <<monVars, dispVars, cmdVars, auxVars, supVars, request_write, ticker, cliVars, inner_rx, seen_w,
                   first_frame, ended_by>>

Gateway ==
    \/ GwRecv
    \/ GwAcquire
    \/ GwWriteOk
    \/ GwWriteErr

\* ------------------------------- inbound dispatch: handle_messages, receivers
\* What serde_json::from_value makes of one field of an object frame: an
\* Event (a RemoteAuth with auth_key true is one like any other), an error,
\* or a RemoteAuth with auth_key false.
FieldKinds == {"event", "undecodable", "auth_failed"}
EventKinds == {"event"}

\* a text frame holding a JSON object, as the sequence of its fields in the
\* order the map iterates them
ObjectFrames == UNION {[1..n -> FieldKinds] : n \in 0..MaxFields}
\* the frames that handle_messages passes over: a close frame, text that is
\* not JSON, JSON that is not an object, and a frame that is not text
SkippedFrames == {"close", "not_json", "not_object", "not_text"}

DispInit ==
    /\ hm_pc = "read"
    /\ hm_frame = <<>>
    /\ nframes = 0
    /\ last_read = "none"
    /\ seen = <<>>
    /\ sent = <<>>
    /\ rx = [s \in Subs |->
                [st |-> "none", queue |-> <<>>, got |-> <<>>, lag |-> FALSE, from |-> 0]]

\* handle_messages: the fields left to iterate after one failed to decode
RestAfterUndecodableNone(rest) == <<>>
RestAfterUndecodable(rest) == rest

\* broadcast::Sender::send returns at once, whatever the receivers hold
CanSendWhenRoom(r) == \A s \in Subs : r[s].st = "open" => Len(r[s].queue) < ChanCap
CanSend(r) == TRUE

\* the broadcast channel: a value is queued behind the values already there
EnqFront(q, e) == <<e>> \o q
Enq(q, e) == Append(q, e)

\* the broadcast channel: a receiver that falls more than the capacity behind
\* loses its oldest value and will be told that it lagged
Push(r, e) ==
    LET q == Enq(r.queue, e)
    IN  IF Len(q) > ChanCap
        THEN [r EXCEPT !.queue = Tail(q), !.lag = TRUE]
        ELSE [r EXCEPT !.queue = q]

\* message_tx.send(m): every live receiver gets the value
Broadcast(e) == [s \in Subs |-> IF rx[s].st = "open" THEN Push(rx[s], e) ELSE rx[s]]

\* handle_messages: where the loop goes on once a field has been dealt with
HmPcAfter(rest) == IF rest = <<>> THEN "read" ELSE "field"

\* handle_messages: read.next() gives a text frame that parses to an object
HmReadObject ==
    /\ hm_pc = "read"
    /\ nframes < MaxFrames
    /\ \E f \in ObjectFrames :
        /\ seen' = seen \o f
        /\ hm_frame' = f
        /\ hm_pc' = HmPcAfter(f)
    /\ nframes' = nframes + 1
    /\ last_read' = "object"
    /\ UNCHANGED <<monVars, sessVars, cmdVars, auxVars, sent, rx>>

\* handle_messages: read.next() gives a frame that the loop passes over
HmReadSkipped ==
    /\ hm_pc = "read"
    /\ nframes < MaxFrames
    /\ \E k \in SkippedFrames : last_read' = k
    /\ nframes' = nframes + 1
    /\ UNCHANGED <<monVars, sessVars, cmdVars, auxVars, hm_pc, hm_frame, seen, sent, rx>>

\* handle_messages: read.next() gives None or an error, the function returns Ok
HmReadEnd ==
    /\ hm_pc = "read"
    /\ hm_pc' = "closed"
    /\ last_read' = "end"
    /\ UNCHANGED <<monVars, sessVars, cmdVars, auxVars, hm_frame, nframes, seen, sent, rx>>

\* handle_messages: from_value fails on the field, `continue`
HmFieldUndecodable ==
    /\ hm_pc = "field"
    /\ Head(hm_frame) = "undecodable"
    /\ hm_frame' = RestAfterUndecodable(Tail(hm_frame))
    /\ hm_pc' = HmPcAfter(hm_frame')
    /\ UNCHANGED <<monVars, sessVars, cmdVars, auxVars, nframes, last_read, seen, sent, rx>>

\* handle_messages: the field is RemoteAuth with auth_key false, return Err;
\* run_loop breaks and drops the Sender
HmFieldAuthFailed ==
    /\ hm_pc = "field"
    /\ Head(hm_frame) = "auth_failed"
    /\ hm_frame' = Tail(hm_frame)
    /\ hm_pc' = "ended"
    /\ UNCHANGED <<monVars, sessVars, cmdVars, auxVars, nframes, last_read, seen, sent, rx>>

\* handle_messages: the field decoded to an Event, message_tx.send(m)
HmFieldSend ==
    /\ hm_pc = "field"
    /\ Head(hm_frame) \in EventKinds
    /\ CanSend(rx)
    /\ LET pos == Len(seen) - Len(hm_frame) + 1
       IN  /\ sent' = Append(sent, pos)
           /\ rx' = Broadcast(pos)
    /\ hm_frame' = Tail(hm_frame)
    /\ hm_pc' = HmPcAfter(hm_frame')
    /\ UNCHANGED <<monVars, sessVars, cmdVars, auxVars, nframes, last_read, seen>>

\* Belabox::message_stream: upgrade the Weak sender and subscribe
Subscribe(s) ==
    /\ rx[s].st = "none"
    /\ hm_pc /= "ended"
    /\ rx' = [rx EXCEPT ![s].st = "open", ![s].from = Len(sent)]
    /\ UNCHANGED <<monVars, sessVars, cmdVars, auxVars, hm_pc, hm_frame, nframes, last_read, seen, sent>>

\* `while let Ok(message) = messages.recv().await`: a value is there
SubRecvOk(s) ==
    /\ rx[s].st = "open"
    /\ ~rx[s].lag
    /\ rx[s].queue /= <<>>
    /\ rx' = [rx EXCEPT ![s].got = Append(@, Head(rx[s].queue)),
                        ![s].queue = Tail(@)]
    /\ UNCHANGED <<monVars, sessVars, cmdVars, auxVars, hm_pc, hm_frame, nframes, last_read, seen, sent>>

\* recv gives Err(Lagged): the `while let` loop of the task ends
SubRecvLagged(s) ==
    /\ rx[s].st = "open"
    /\ rx[s].lag
    /\ rx' = [rx EXCEPT ![s].st = "ended"]
    /\ UNCHANGED <<monVars, sessVars, cmdVars, auxVars, hm_pc, hm_frame, nframes, last_read, seen, sent>>

\* recv gives Err(Closed) once the Sender is gone and the queue is drained
SubRecvClosed(s) ==
    /\ rx[s].st = "open"
    /\ ~rx[s].lag
    /\ rx[s].queue = <<>>
    /\ hm_pc = "ended"
    /\ rx' = [rx EXCEPT ![s].st = "ended"]
    /\ UNCHANGED <<monVars, sessVars, cmdVars, auxVars, hm_pc, hm_frame, nframes, last_read, seen, sent>>

HandleMessages ==
    \/ HmReadObject
    \/ HmReadSkipped
    \/ HmReadEnd
    \/ HmFieldUndecodable
    \/ HmFieldAuthFailed
    \/ HmFieldSend

Receivers ==
    \E s \in Subs :
        \/ Subscribe(s)
        \/ SubRecvOk(s)
        \/ SubRecvLagged(s)
        \/ SubRecvClosed(s)

\* ----------------------------- commands and the cache of the appliance state
\* BelaState::default()
BelaStateDefault ==
    [online |-> FALSE, is_streaming |-> FALSE, restart |-> FALSE, config |-> <<>>,
     netif |-> <<>>, sensors |-> <<>>, pipelines |-> <<>>, asrcs |-> <<>>]

\* the configuration the appliance reports in its config event
ApplianceConfig ==
    [max_br |-> 5000, srt_latency |-> 2000, delay |-> 0, pipeline |-> "p1", asrc |-> "a1"]

\* the commands of CommandHandler::run that start, stop or reboot the
\* appliance or change its configuration; the argument of a changing command
\* is "good" when it names a value the command accepts
ChangeKinds == {"latency", "audio_delay", "pipeline", "audio_src"}
NumericKinds == {"latency", "audio_delay"}
CommandKinds == {"start", "stop", "restart"} \cup ChangeKinds
Commands ==
    {c \in [kind : CommandKinds, arg : {"good", "bad"}] :
        c.arg = "bad" => c.kind \in ChangeKinds}

\* how an intent handed to the session resolves
Results == {"ok", "disconnected"}

CmdInit ==
    /\ bela_state = BelaStateDefault
    /\ ch_pc = "idle"
    /\ ch_cmd = [kind |-> "none", arg |-> "good"]
    /\ ch_streaming = FALSE
    /\ ch_found = FALSE
    /\ log = <<>>

\* entries of the log
Intent(op, res, req) == [op |-> op, res |-> res, req |-> req]
Chat(text) == [op |-> "chat", res |-> text, req |-> <<>>]
Slept == [op |-> "sleep", res |-> "5s", req |-> <<>>]
Wrote(kind) == [op |-> "write", res |-> kind, req |-> <<>>]
Status(b) == [op |-> "status", res |-> IF b THEN "true" ELSE "false", req |-> <<>>]
NStatus(l) == Len(SelectSeq(l, LAMBDA e : e.op = "status"))

\* requests::Start::from(config)
StartFrom(c) ==
    [pipeline |-> c.pipeline, delay |-> c.delay, max_br |-> c.max_br,
     srt_latency |-> c.srt_latency, asrc |-> c.asrc]

\* the `?` after an intent: an Err leaves the command
PropagatesNever(res) == FALSE
Propagates(res) == res /= "ok"

\* format!("Error {}", e) of an Error::Belabox
ErrorText == "Error BELABOX error"

\* start: `if is_streaming { return Ok("Error already streaming") }`
AlreadyStreamingNever(s) == FALSE
AlreadyStreaming(s) == s

\* CommandHandler::start as called with the cache `st`, the intent (if one is
\* sent) resolving as `res`: the log entries, whether it returns Ok, the text
StartCall(st, res) ==
    IF st.config = <<>>
    THEN [log |-> <<>>, ok |-> TRUE, text |-> "Error starting BELABOX"]
    ELSE IF AlreadyStreaming(st.is_streaming)
    THEN [log |-> <<>>, ok |-> TRUE, text |-> "Error already streaming"]
    ELSE [log |-> <<Intent("start", res, <<StartFrom(st.config[1])>>)>>,
          ok |-> ~Propagates(res),
          text |-> IF Propagates(res) THEN ErrorText ELSE "Starting BELABOX"]

\* CommandHandler::stop, likewise
StopCall(st, res) ==
    IF ~st.is_streaming
    THEN [log |-> <<>>, ok |-> TRUE, text |-> "Error not streaming"]
    ELSE [log |-> <<Intent("stop", res, <<>>)>>,
          ok |-> ~Propagates(res),
          text |-> IF Propagates(res) THEN ErrorText ELSE "Stopping BELABOX"]

\* restart: `if lock.restart { return Err(AlreadyRestarting) }`
RestartRefusedNever(st) == FALSE
RestartRefused(st) == st.restart

\* restart: what follows the locked block
RestartNextNoStop(streaming) == "r_reboot"
RestartNextPc(streaming) == IF streaming THEN "r_stop" ELSE "r_reboot"

\* the value a changing command writes into the cached configuration
ApplyChange(kind, c) ==
    CASE kind = "latency" -> [c EXCEPT !.srt_latency = 1000]
      [] kind = "audio_delay" -> [c EXCEPT !.delay = 40]
      [] kind = "pipeline" -> [c EXCEPT !.pipeline = "p2"]
      [] kind = "audio_src" -> [c EXCEPT !.asrc = "a2"]

\* pipeline, audio_src: whether the lookup over the list read from the cache
\* finds an entry (the pipelines offered are those of the current pipeline's
\* group, so there are none without a cached configuration)
Found(cmd, st) ==
    /\ cmd.arg = "good"
    /\ cmd.kind = "pipeline" => st.config /= <<>>

ChangedText(kind) ==
    CASE kind = "latency" -> "Changed SRT latency"
      [] kind = "audio_delay" -> "Changed audio delay"
      [] kind = "pipeline" -> "Changed pipeline"
      [] kind = "audio_src" -> "Changed audio"
RejectedText(kind) ==
    CASE kind \in NumericKinds -> "Invalid value"
      [] kind = "pipeline" -> "Pipeline not found"
      [] kind = "audio_src" -> "Audio source not found"

\* ---- handle_belabox_messages: the events folded into the cache
FoldConfig ==
    /\ bela_state' = [bela_state EXCEPT !.config = <<ApplianceConfig>>]
    /\ UNCHANGED <<monVars, sessVars, dispVars, auxVars, ch_pc, ch_cmd, ch_streaming, ch_found, log>>

FoldRemoteEncoder ==
    /\ \E b \in BOOLEAN : bela_state' = [bela_state EXCEPT !.online = b]
    /\ UNCHANGED <<monVars, sessVars, dispVars, auxVars, ch_pc, ch_cmd, ch_streaming, ch_found, log>>

\* Message::StreamingStatus and Message::Status
FoldStatus ==
    /\ NStatus(log) < MaxStatus
    /\ \E b \in BOOLEAN :
        /\ bela_state' = [bela_state EXCEPT !.is_streaming = b]
        /\ log' = Append(log, Status(b))
    /\ UNCHANGED <<monVars, sessVars, dispVars, auxVars, ch_pc, ch_cmd, ch_streaming, ch_found>>

\* ---- CommandHandler::run
EntryPc(kind) ==
    CASE kind = "start" -> "start"
      [] kind = "stop" -> "stop"
      [] kind = "restart" -> "r_begin"
      [] kind \in ChangeKinds -> "c_begin"

IsOfflineNever(st) == FALSE

\* run: `if !lock.online`, read under the read lock before the dispatch
IsOffline(st) == ~st.online

AfterErrorStops == "stopped"

\* run: after `Err(e) => self.send(format!("Error {}", e))` the `while let`
\* loop goes round to its next recv
AfterErrorPc == "idle"

\* run: a chat message that names a command the sender may use; the online
\* check
ChTake ==
    /\ ch_pc = "idle"
    /\ \E cmd \in Commands :
        /\ ch_cmd' = cmd
        /\ IF IsOffline(bela_state)
           THEN /\ log' = <<Chat("Offline :(")>>
                /\ ch_pc' = "idle"
           ELSE /\ log' = <<>>
                /\ ch_pc' = EntryPc(cmd.kind)
    /\ UNCHANGED <<monVars, sessVars, dispVars, auxVars, bela_state, ch_streaming, ch_found>>

\* run: BotCommand::Start => self.start(), and the response
ChStart ==
    /\ ch_pc = "start"
    /\ \E res \in Results :
        LET o == StartCall(bela_state, res)
        IN  /\ log' = log \o o.log \o <<Chat(o.text)>>
            /\ ch_pc' = IF o.ok THEN "idle" ELSE AfterErrorPc
    /\ UNCHANGED <<monVars, sessVars, dispVars, auxVars, bela_state, ch_cmd, ch_streaming, ch_found>>

\* run: BotCommand::Stop => self.stop(), and the response
ChStop ==
    /\ ch_pc = "stop"
    /\ \E res \in Results :
        LET o == StopCall(bela_state, res)
        IN  /\ log' = log \o o.log \o <<Chat(o.text)>>
            /\ ch_pc' = IF o.ok THEN "idle" ELSE AfterErrorPc
    /\ UNCHANGED <<monVars, sessVars, dispVars, auxVars, bela_state, ch_cmd, ch_streaming, ch_found>>

\* restart: the block under the write lock
ChRestartBegin ==
    /\ ch_pc = "r_begin"
    /\ IF RestartRefused(bela_state)
       THEN /\ log' = Append(log, Chat(ErrorText))
            /\ ch_pc' = AfterErrorPc
            /\ UNCHANGED <<bela_state, ch_streaming>>
       ELSE /\ bela_state' = [bela_state EXCEPT !.restart = @ \/ bela_state.is_streaming]
            /\ ch_streaming' = bela_state.is_streaming
            /\ ch_pc' = RestartNextPc(bela_state.is_streaming)
            /\ UNCHANGED log
    /\ UNCHANGED <<monVars, sessVars, dispVars, auxVars, ch_cmd, ch_found>>

\* restart: self.belabox.stop().await?
ChRestartStop ==
    /\ ch_pc = "r_stop"
    /\ \E res \in Results :
        IF Propagates(res)
        THEN /\ log' = log \o <<Intent("stop", res, <<>>), Chat(ErrorText)>>
             /\ ch_pc' = AfterErrorPc
        ELSE /\ log' = Append(log, Intent("stop", res, <<>>))
             /\ ch_pc' = "r_reboot"
    /\ UNCHANGED <<monVars, sessVars, dispVars, auxVars, bela_state, ch_cmd, ch_streaming, ch_found>>

\* restart: self.belabox.restart().await?, and the response
ChRestartReboot ==
    /\ ch_pc = "r_reboot"
    /\ \E res \in Results :
        /\ log' = log \o <<Intent("reboot", res, <<>>),
                           Chat(IF Propagates(res) THEN ErrorText ELSE "Rebooting BELABOX")>>
        /\ ch_pc' = IF Propagates(res) THEN AfterErrorPc ELSE "idle"
    /\ UNCHANGED <<monVars, sessVars, dispVars, auxVars, bela_state, ch_cmd, ch_streaming, ch_found>>

\* latency, audio_delay, pipeline, audio_src: the argument is parsed and
\* checked (numbers), the cache is read
ChChangeBegin ==
    /\ ch_pc = "c_begin"
    /\ IF ch_cmd.kind \in NumericKinds /\ ch_cmd.arg = "bad"
       THEN /\ log' = Append(log, Chat(RejectedText(ch_cmd.kind)))
            /\ ch_pc' = "idle"
            /\ UNCHANGED <<ch_streaming, ch_found>>
       ELSE /\ ch_streaming' = bela_state.is_streaming
            /\ ch_found' = Found(ch_cmd, bela_state)
            /\ ch_pc' = IF bela_state.is_streaming THEN "c_stop" ELSE "c_write"
            /\ UNCHANGED log
    /\ UNCHANGED <<monVars, sessVars, dispVars, auxVars, bela_state, ch_cmd>>

\* `let _ = self.stop().await?;`
ChChangeStop ==
    /\ ch_pc = "c_stop"
    /\ \E res \in Results :
        LET o == StopCall(bela_state, res)
        IN  IF o.ok
            THEN /\ log' = log \o o.log
                 /\ ch_pc' = "c_notice"
            ELSE /\ log' = log \o o.log \o <<Chat(ErrorText)>>
                 /\ ch_pc' = AfterErrorPc
    /\ UNCHANGED <<monVars, sessVars, dispVars, auxVars, bela_state, ch_cmd, ch_streaming, ch_found>>

\* self.send("Restarting the stream")
ChChangeNotice ==
    /\ ch_pc = "c_notice"
    /\ log' = Append(log, Chat("Restarting the stream"))
    /\ ch_pc' = "c_sleep"
    /\ UNCHANGED <<monVars, sessVars, dispVars, auxVars, bela_state, ch_cmd, ch_streaming, ch_found>>

\* tokio::time::sleep(Duration::from_secs(5))
ChChangeSleep ==
    /\ ch_pc = "c_sleep"
    /\ log' = Append(log, Slept)
    /\ ch_pc' = "c_write"
    /\ UNCHANGED <<monVars, sessVars, dispVars, auxVars, bela_state, ch_cmd, ch_streaming, ch_found>>

\* the lookup (pipeline, audio_src) and the block under the write lock; the
\* response when the stream was not running
ChChangeWrite ==
    /\ ch_pc = "c_write"
    /\ IF ~ch_found /\ ch_cmd.kind \notin NumericKinds
       THEN /\ log' = Append(log, Chat(RejectedText(ch_cmd.kind)))
            /\ ch_pc' = "idle"
            /\ UNCHANGED bela_state
       ELSE /\ bela_state' =
                  IF bela_state.config = <<>> THEN bela_state
                  ELSE [bela_state EXCEPT
                            !.config = <<ApplyChange(ch_cmd.kind, bela_state.config[1])>>]
            /\ IF ch_streaming
               THEN /\ log' = Append(log, Wrote(ch_cmd.kind))
                    /\ ch_pc' = "c_start"
               ELSE /\ log' = log \o <<Wrote(ch_cmd.kind), Chat(ChangedText(ch_cmd.kind))>>
                    /\ ch_pc' = "idle"
    /\ UNCHANGED <<monVars, sessVars, dispVars, auxVars, ch_cmd, ch_streaming, ch_found>>

\* `let _ = self.start().await?;` and the response
ChChangeStart ==
    /\ ch_pc = "c_start"
    /\ \E res \in Results :
        LET o == StartCall(bela_state, res)
        IN  /\ log' = log \o o.log \o
                      <<Chat(IF o.ok THEN ChangedText(ch_cmd.kind) ELSE ErrorText)>>
            /\ ch_pc' = IF o.ok THEN "idle" ELSE AfterErrorPc
    /\ UNCHANGED <<monVars, sessVars, dispVars, auxVars, bela_state, ch_cmd, ch_streaming, ch_found>>

StateUpdater ==
    \/ FoldConfig
    \/ FoldRemoteEncoder
    \/ FoldStatus

CommandHandler ==
    \/ ChTake
    \/ ChStart
    \/ ChStop
    \/ ChRestartBegin
    \/ ChRestartStop
    \/ ChRestartReboot
    \/ ChChangeBegin
    \/ ChChangeStop
    \/ ChChangeNotice
    \/ ChChangeSleep
    \/ ChChangeWrite
    \/ ChChangeStart

\* ------------------------------ bitrate, latency, audio_delay: the argument
\* the limits and steps of the three commands
BitrateMin == 500
BitrateMax == 12000
BitrateStep == 250
LatencyMin == 100
LatencyMax == 4000
LatencyStep == 100
DelayMax == 2000
DelayStep == 20

\* i32::MAX and i32::MIN
I32Max == 2147483647
I32Min == (-I32Max) - 1

\* The argument of a command as it is typed in chat: none, a word that is no
\* numeral, a decimal numeral of value n, or a numeral too long for any
\* integer type. Numerals here stay within 32 bits: an unsigned numeral
\* between 2^31 and 2^64 parses and is then out of range like I32Max.
NoArg == [kind |-> "none", n |-> 0]
Word == [kind |-> "word", n |-> 0]
Huge == [kind |-> "huge", n |-> 0]
Num(n) == [kind |-> "num", n |-> n]

Extremes == {I32Min, I32Min + 1, -1, 0, I32Max}
Around(lo, hi) == ((lo - Margin)..(hi + Margin)) \cup Extremes
ArgsAround(lo, hi) == {NoArg, Word, Huge} \cup {Num(n) : n \in Around(lo, hi)}

NumCommands ==
    [kind : {"bitrate"}, arg : ArgsAround(BitrateMin, BitrateMax)]
        \cup [kind : {"latency"}, arg : ArgsAround(LatencyMin, LatencyMax)]
        \cup [kind : {"audio_delay"}, arg : ArgsAround(-DelayMax, DelayMax)]

\* str::parse::<u32>() and ::<u64>(): Ok for a numeral without a minus sign
ParseUnsigned(a) == IF a.kind = "num" /\ a.n >= 0 THEN <<a.n>> ELSE <<>>

\* str::parse::<i32>(): Ok for a numeral from i32::MIN to i32::MAX
ParseI32(a) == IF a.kind = "num" THEN <<a.n>> ELSE <<>>

\* i32::abs(): the absolute value of i32::MIN is no i32; a build with
\* overflow checks panics there, a build without them gives i32::MIN back
AbsI32(n) ==
    IF n = I32Min
    THEN {[panic |-> TRUE, v |-> 0], [panic |-> FALSE, v |-> I32Min]}
    ELSE {[panic |-> FALSE, v |-> IF n < 0 THEN -n ELSE n]}

RoundHalfToZero(v, s) ==
    LET q == v \div s
        r == v % s
    IN  IF 2 * r > s \/ (2 * r = s /\ v < 0) THEN q + 1 ELSE q

\* f64::round() of v / s: to the nearest integer, halves away from zero
\* (q is the floor of the quotient and r what is left over it; the quotient
\* of two integers of this size is a half only when it is exactly a half)
RoundHalfAway(v, s) ==
    LET q == v \div s
        r == v % s
    IN  IF 2 * r > s \/ (2 * r = s /\ v >= 0) THEN q + 1 ELSE q

\* increment_by_step: (value / step).round() * step
IncrementByStep(value, step) == RoundHalfAway(value, step) * step

\* a chat response that formats a number
ChatN(text, n) == [op |-> "chat", res |-> text, req |-> <<[n |-> n]>>]

\* `if let Some(config) = &mut lock.config { config.<field> = v }`
SetConfig(st, field, v) ==
    IF st.config = <<>>
    THEN st
    ELSE [st EXCEPT !.config = <<[st.config[1] EXCEPT ![field] = v]>>]

\* what a handler leaves: its intents and responses, the cache, and whether
\* the task of the command handler is still there
Done(l, st) == [log |-> l, state |-> st, pc |-> "idle"]
Panicked(st) == [log |-> <<>>, state |-> st, pc |-> "panicked"]

\* CommandHandler::bitrate and the response of run; res is how the bitrate
\* intent resolves
Bitrate(a, st, res) ==
    IF a.kind = "none"
    THEN Done(<<Chat("No bitrate given")>>, st)
    ELSE IF ParseUnsigned(a) = <<>>
    THEN Done(<<Chat("Invalid number {} given")>>, st)
    ELSE LET n == ParseUnsigned(a)[1]
             b == IncrementByStep(n, BitrateStep)
             intent == Intent("bitrate", res, <<[max_br |-> b]>>)
         IN  IF n \notin BitrateMin..BitrateMax
             THEN Done(<<ChatN("Invalid value: {}, use a value between 500 - 12000", n)>>, st)
             ELSE IF Propagates(res)
             THEN Done(<<intent, Chat(ErrorText)>>, st)
             ELSE Done(<<intent, ChatN("Changed max bitrate to {} kbps", b)>>,
                       SetConfig(st, "max_br", b))

\* latency and audio_delay from the read of is_streaming on: stop, notice and
\* sleep when streaming, the write of the normalised value v, start when
\* streaming, the response. r1 and r2 are how the stop and the start intent
\* resolve and streaming2 is what the cache says about streaming when start
\* reads it (the state updater may have folded a status event meanwhile).
ChangeNumeric(kind, field, text, v, st, r1, streaming2, r2) ==
    LET none == [log |-> <<>>, ok |-> TRUE, text |-> ""]
        stop == IF st.is_streaming THEN StopCall(st, r1) ELSE none
        notice == IF st.is_streaming
                  THEN <<Chat("Restarting the stream"), Slept>>
                  ELSE <<>>
        st2 == SetConfig([st EXCEPT !.is_streaming = @ /\ streaming2], field, v)
        start == IF st.is_streaming THEN StartCall(st2, r2) ELSE none
    IN  IF ~stop.ok
        THEN Done(stop.log \o <<Chat(ErrorText)>>, st)
        ELSE Done(stop.log \o notice \o <<Wrote(kind)>> \o start.log
                    \o <<IF start.ok THEN ChatN(text, v) ELSE Chat(ErrorText)>>,
                  st2)

\* CommandHandler::latency and the response of run
Latency(a, st, r1, streaming2, r2) ==
    IF a.kind = "none"
    THEN Done(<<Chat("Current SRT latency is {} ms")>>, st)
    ELSE IF ParseUnsigned(a) = <<>>
    THEN Done(<<Chat("Invalid number {} given")>>, st)
    ELSE LET n == ParseUnsigned(a)[1]
         IN  IF n \notin LatencyMin..LatencyMax
             THEN Done(<<ChatN("Invalid value: {}, use a value between 100 - 4000", n)>>, st)
             ELSE ChangeNumeric("latency", "srt_latency", "Changed SRT latency to {} ms",
                                IncrementByStep(n, LatencyStep), st, r1, streaming2, r2)

\* CommandHandler::audio_delay and the response of run; abs is what
\* delay.abs() gives
AudioDelay(a, st, abs, r1, streaming2, r2) ==
    IF a.kind = "none"
    THEN Done(<<Chat("Current audio delay is {} ms")>>, st)
    ELSE IF ParseI32(a) = <<>>
    THEN Done(<<Chat("Invalid number {} given")>>, st)
    ELSE LET n == ParseI32(a)[1]
         IN  IF abs.panic
             THEN Panicked(st)
             ELSE IF abs.v > DelayMax
             THEN Done(<<ChatN("Invalid value: {}, use a value between -2000 - 2000", n)>>, st)
             ELSE ChangeNumeric("audio_delay", "delay", "Changed audio delay to {} ms",
                                IncrementByStep(n, DelayStep), st, r1, streaming2, r2)

\* the handler of one command with a numeric argument, from the dispatch of
\* run to its response
Finish(o) ==
    /\ log' = o.log
    /\ bela_state' = o.state
    /\ ch_pc' = o.pc
    /\ UNCHANGED <<monVars, sessVars, dispVars, auxVars, ch_cmd, ch_streaming, ch_found>>

\* how Belabox::send resolves: Ok, or BelaboxError::Disconnected (no writer)
\* or BelaboxError::Send (the write failed)
IntentResults == Results \cup {"send"}

NumBitrate ==
    /\ ch_pc = "dispatch"
    /\ ch_cmd.kind = "bitrate"
    /\ \E res \in IntentResults : Finish(Bitrate(ch_cmd.arg, bela_state, res))

NumLatency ==
    /\ ch_pc = "dispatch"
    /\ ch_cmd.kind = "latency"
    /\ \E r1, r2 \in Results, streaming2 \in BOOLEAN :
        Finish(Latency(ch_cmd.arg, bela_state, r1, streaming2, r2))

NumAudioDelay ==
    /\ ch_pc = "dispatch"
    /\ ch_cmd.kind = "audio_delay"
    /\ \E r1, r2 \in Results, streaming2 \in BOOLEAN :
        \E abs \in AbsI32(IF ParseI32(ch_cmd.arg) = <<>> THEN 0 ELSE ParseI32(ch_cmd.arg)[1]) :
            Finish(AudioDelay(ch_cmd.arg, bela_state, abs, r1, streaming2, r2))

\* the cache a command finds: online, streaming or not, with or without the
\* configuration of the appliance
CachedStates ==
    [online : {TRUE}, is_streaming : BOOLEAN, restart : {FALSE},
     config : {<<>>, <<ApplianceConfig>>}, netif : {<<>>},
     sensors : {<<>>}, pipelines : {<<>>}, asrcs : {<<>>}]

\* ------------------------------------------------ network: the interface toggle
\* The interfaces the appliance may report are named 1..MaxNetifs and
\* interface i has the address 100 + i. A cached table maps the names of some
\* of them to their address and whether they are enabled.
NetifNames == 1..MaxNetifs
NetifTables ==
    UNION {[S -> BOOLEAN] : S \in SUBSET NetifNames}
NetifOf(en) == [k \in DOMAIN en |-> [ip |-> 100 + k, enabled |-> en[k]]]

\* config.belabox.custom_interface_name, from an interface name or an address
\* to the name the streamer gave it: one for interface 1 by its name, one for
\* interface 2 by its address, one for an address no interface has
CustomInterfaceName == {<<1, 201>>, <<102, 202>>, <<199, 203>>}

\* the words tried as the argument: every interface name and one more, the
\* custom names and a word that is neither
NetWords == (1..(MaxNetifs + 1)) \cup {p[2] : p \in CustomInterfaceName} \cup {299}
Token(w) == [kind |-> "text", n |-> w]
NetCommands == [kind : {"network"}, arg : {NoArg} \cup {Token(w) : w \in NetWords}]

\* network: the interface the argument names, by its own name, else by the
\* custom name of its name, else by the custom name of its address
LookupInterface(name, netifs) ==
    IF name \in DOMAIN netifs
    THEN <<name>>
    ELSE IF \E p \in CustomInterfaceName : p[2] = name
    THEN LET original == (CHOOSE p \in CustomInterfaceName : p[2] = name)[1]
         IN  IF original \in DOMAIN netifs
             THEN <<original>>
             ELSE IF \E k \in DOMAIN netifs : netifs[k].ip = original
             THEN <<CHOOSE k \in DOMAIN netifs : netifs[k].ip = original>>
             ELSE <<>>
    ELSE <<>>

\* network: `if netifs.len() == 1`
OnlyOneConnection(netifs) == Cardinality(DOMAIN netifs) = 1

DisablesAllNever(netifs, interface) == FALSE

\* network: `if netifs.len() - disabled_count == 1 && interface.enabled`
DisablesAll(netifs, interface) ==
    LET disabled_count == Cardinality({k \in DOMAIN netifs : ~netifs[k].enabled})
    IN  Cardinality(DOMAIN netifs) - disabled_count = 1 /\ interface.enabled

\* CommandHandler::network and the response of run; res is how the netif
\* intent resolves
Network(a, st, res) ==
    IF a.kind = "none"
    THEN Done(<<Chat("No interface given")>>, st)
    ELSE IF st.netif = <<>>
    THEN Done(<<Chat("Interfaces not available")>>, st)
    ELSE LET netifs == st.netif[1]
             found == LookupInterface(a.n, netifs)
         IN  IF OnlyOneConnection(netifs)
             THEN Done(<<Chat("You only have one connection!")>>, st)
             ELSE IF found = <<>>
             THEN Done(<<Chat("Interface not found")>>, st)
             ELSE LET interface == netifs[found[1]]
                      intent == Intent("netif", res,
                                       <<[name |-> found[1], ip |-> interface.ip,
                                          enabled |-> ~interface.enabled]>>)
                  IN  IF DisablesAll(netifs, interface)
                      THEN Done(<<Chat("Can't disable all networks")>>, st)
                      ELSE IF Propagates(res)
                      THEN Done(<<intent, Chat(ErrorText)>>, st)
                      ELSE Done(<<intent,
                                  Chat(IF interface.enabled
                                       THEN "{} has been disabled"
                                       ELSE "{} has been enabled")>>, st)

NetNetwork ==
    /\ ch_pc = "dispatch"
    /\ ch_cmd.kind = "network"
    /\ \E res \in Results : Finish(Network(ch_cmd.arg, bela_state, res))

\* the cache a network command finds: no table yet, or one of the tables
NetStates ==
    {[BelaStateDefault EXCEPT !.online = TRUE, !.netif = t] :
        t \in {<<>>} \cup {<<NetifOf(en)>> : en \in NetifTables}}

\* ------------------------------------------ run: who may use which command
\* config::Permission
Permissions == {"Broadcaster", "Moderator", "Vip", "Public"}

\* config.twitch.admins and the senders tried: one of them an admin
Admins == {"admin"}
Senders == {"admin", "viewer"}

\* twitch::HandleMessage: the sender and the badges of the message
HandleMessage == [sender_name : Senders, broadcaster : BOOLEAN,
                    moderator : BOOLEAN, vip : BOOLEAN]

IsAllowedAlways(permission, hm) == TRUE

\* CommandHandler::is_allowed_to_execute
IsAllowedToExecute(permission, hm) ==
    LET broadcaster == hm.broadcaster \/ hm.sender_name \in Admins
        moderator == broadcaster \/ hm.moderator
        vip == moderator \/ hm.vip
    IN  CASE permission = "Broadcaster" -> broadcaster
          [] permission = "Moderator" -> moderator
          [] permission = "Vip" -> vip
          [] permission = "Public" -> TRUE

\* the messages tried: a command that starts, stops or reboots the
\* appliance, the tier its configuration asks for, and the sender
PermCommands ==
    [kind : {"start", "stop", "restart"}, arg : {"good"},
     permission : Permissions, hm : HandleMessage]

\* run: one message that names a command: the permission check, the online
\* check, the dispatch
PermTake ==
    /\ ch_pc = "received"
    /\ IF ~IsAllowedToExecute(ch_cmd.permission, ch_cmd.hm)
       THEN ch_pc' = "idle" /\ UNCHANGED log
       ELSE IF IsOffline(bela_state)
       THEN ch_pc' = "idle" /\ log' = <<Chat("Offline :(")>>
       ELSE ch_pc' = EntryPc(ch_cmd.kind) /\ UNCHANGED log
    /\ UNCHANGED <<monVars, sessVars, dispVars, auxVars, bela_state, ch_cmd, ch_streaming, ch_found>>

\* the cache a message finds
PermStates ==
    {[BelaStateDefault EXCEPT !.online = o, !.is_streaming = s,
                              !.config = <<ApplianceConfig>>] :
        o \in BOOLEAN, s \in BOOLEAN}

\* ------------------------------------- pipeline, audio_src: the fuzzy lookup
\* Names are sequences of characters: two letters, one of them in upper case
\* in the names the appliance reports, the underscore and the space.
NameChars == {"a", "B", "_", " "}
QueryChars == {"a", "b", " "}
StringsOver(chars, n) == UNION {[1..k -> chars] : k \in 0..n}

\* the names the appliance may report for a pipeline of the current group
\* or for an audio source, none of them empty
Names == StringsOver(NameChars, MaxName) \ {<<>>}
Candidates == UNION {[1..k -> Names] : k \in 0..MaxCands}

\* split_whitespace() and join(" "): the words of the message after the
\* command, one space between two words
Queries ==
    {q \in StringsOver(QueryChars, MaxName) :
        /\ q /= <<>> => q[1] /= " " /\ q[Len(q)] /= " "
        /\ \A i \in 1..(Len(q) - 1) : ~(q[i] = " " /\ q[i + 1] = " ")}

FuzzCommands == [kind : {"pipeline", "audio_src"}, arg : Queries]

\* str::to_lowercase
ToLowercase(s) == [i \in 1..Len(s) |-> IF s[i] = "B" THEN "b" ELSE s[i]]
\* str::replace('_', " ")
ReplaceUnderscore(s) == [i \in 1..Len(s) |-> IF s[i] = "_" THEN " " ELSE s[i]]

\* what a candidate is compared by: p.to_lowercase().replace('_', " ") for a
\* pipeline, asrc.to_lowercase() for an audio source
Normalized(kind, name) ==
    IF kind = "pipeline"
    THEN ReplaceUnderscore(ToLowercase(name))
    ELSE ToLowercase(name)

\* strsim::sorensen_dice: both strings without their whitespace; 1 when they
\* are equal, 0 when one has fewer than two characters, else twice the
\* number of bigrams of b matched one for one with bigrams of a, over the
\* number of bigrams of both. The score is kept as <<numerator, denominator>>.
NoWhitespace(s) == SelectSeq(s, LAMBDA c : c /= " ")
Bigrams(s) == [i \in 1..(Len(s) - 1) |-> <<s[i], s[i + 1]>>]
BigramCounts(bs) ==
    [g \in {bs[i] : i \in DOMAIN bs} |-> Cardinality({i \in DOMAIN bs : bs[i] = g})]
RECURSIVE IntersectionSize(_, _)
IntersectionSize(a_bigrams, bs) ==
    IF bs = <<>>
    THEN 0
    ELSE IF Head(bs) \in DOMAIN a_bigrams /\ a_bigrams[Head(bs)] > 0
    THEN 1 + IntersectionSize([a_bigrams EXCEPT ![Head(bs)] = @ - 1], Tail(bs))
    ELSE IntersectionSize(a_bigrams, Tail(bs))
SorensenDice(a, b) ==
    LET x == NoWhitespace(a)
        y == NoWhitespace(b)
    IN  IF x = y
        THEN <<1, 1>>
        ELSE IF Len(x) < 2 \/ Len(y) < 2
        THEN <<0, 1>>
        ELSE <<2 * IntersectionSize(BigramCounts(Bigrams(x)), Bigrams(y)),
               Len(x) + Len(y) - 2>>

\* f64: partial_cmp gives Less, `== 0.0`
ScoreLess(p, q) == p[1] * q[2] < q[1] * p[2]
ScoreIsZero(p) == p[1] = 0

ReplacesBestOnTie(best, next) == ~ScoreLess(next, best)

\* min_by(|a, b| b.1.partial_cmp(&a.1).unwrap()): the fold goes on to the
\* next element only when the comparison of the best so far with it is
\* Greater, that is when the next element's score is the greater one
ReplacesBest(best, next) == ScoreLess(best, next)

\* Iterator::min_by over the scores in iteration order: the position of the
\* element found, 0 for an empty iterator
RECURSIVE MinByFrom(_, _, _)
MinByFrom(scores, i, best) ==
    IF i > Len(scores)
    THEN best
    ELSE MinByFrom(scores, i + 1,
                   IF ReplacesBest(scores[best], scores[i]) THEN i ELSE best)
MinBy(scores) == IF scores = <<>> THEN 0 ELSE MinByFrom(scores, 2, 1)

\* the lookup of both commands: the candidate of the list found for the
\* query, <<>> when the list is empty or the score of the one found is zero
FuzzyFind(kind, query, list) ==
    LET scores == [i \in 1..Len(list) |-> SorensenDice(query, Normalized(kind, list[i]))]
        found == MinBy(scores)
    IN  IF found = 0 \/ ScoreIsZero(scores[found]) THEN <<>> ELSE <<found>>

\* a chat response that formats a name
ChatS(text, name) == [op |-> "chat", res |-> text, req |-> <<[name |-> name]>>]

\* pipeline: the candidates, (key, name) of the pipelines of the current
\* pipeline's group; none without the list or without a configuration. The
\* key of a pipeline is its position in the list.
PipelinesOf(st) ==
    IF st.pipelines /= <<>> /\ st.config /= <<>> THEN st.pipelines[1] ELSE <<>>

\* CommandHandler::pipeline and the response of run; r1 and r2 are how the
\* stop and the start intent resolve, streaming2 what the cache says about
\* streaming when start reads it
Pipeline(query, st, r1, streaming2, r2) ==
    LET none == [log |-> <<>>, ok |-> TRUE, text |-> ""]
        pipelines == PipelinesOf(st)
        stop == IF st.is_streaming THEN StopCall(st, r1) ELSE none
        notice == IF st.is_streaming
                  THEN <<Chat("Restarting the stream"), Slept>>
                  ELSE <<>>
        found == FuzzyFind("pipeline", query, pipelines)
        st1 == [st EXCEPT !.is_streaming = @ /\ streaming2]
        st2 == SetConfig(st1, "pipeline", IF found = <<>> THEN 0 ELSE found[1])
        start == IF st.is_streaming THEN StartCall(st2, r2) ELSE none
    IN  IF ~stop.ok
        THEN Done(stop.log \o <<Chat(ErrorText)>>, st)
        ELSE IF found = <<>>
        THEN Done(stop.log \o notice \o <<Chat("Pipeline not found")>>, st)
        ELSE Done(stop.log \o notice \o <<Wrote("pipeline")>> \o start.log
                    \o <<IF start.ok
                         THEN ChatS("Changed pipeline to {}", pipelines[found[1]])
                         ELSE Chat(ErrorText)>>,
                  st2)

\* CommandHandler::audio_src and the response of run
AudioSrc(query, st, r1, streaming2, r2) ==
    LET none == [log |-> <<>>, ok |-> TRUE, text |-> ""]
        stop == IF st.is_streaming THEN StopCall(st, r1) ELSE none
        notice == IF st.is_streaming
                  THEN <<Chat("Restarting the stream"), Slept>>
                  ELSE <<>>
        asrcs == IF st.asrcs = <<>> THEN <<>> ELSE st.asrcs[1]
        found == FuzzyFind("audio_src", query, asrcs)
        st1 == [st EXCEPT !.is_streaming = @ /\ streaming2]
        st2 == SetConfig(st1, "asrc", IF found = <<>> THEN <<>> ELSE <<asrcs[found[1]]>>)
        start == IF st.is_streaming THEN StartCall(st2, r2) ELSE none
    IN  IF ~stop.ok
        THEN Done(stop.log \o <<Chat(ErrorText)>>, st)
        ELSE IF st.asrcs = <<>>
        THEN Done(stop.log \o notice \o <<Chat("No audio sources found")>>, st)
        ELSE IF found = <<>>
        THEN Done(stop.log \o notice \o <<Chat("Audio source not found")>>, st)
        ELSE Done(stop.log \o notice \o <<Wrote("audio_src")>> \o start.log
                    \o <<IF start.ok
                         THEN ChatS("Changed audio to {}", asrcs[found[1]])
                         ELSE Chat(ErrorText)>>,
                  st2)

\* the ways the stop and the start intent of a change resolve and what the
\* cache says meanwhile: there is none of it when the stream is not running
ResultsWhen(streaming) == IF streaming THEN Results ELSE {"ok"}
StreamingWhen(streaming) == IF streaming THEN BOOLEAN ELSE {FALSE}

FuzzPipeline ==
    /\ ch_pc = "dispatch"
    /\ ch_cmd.kind = "pipeline"
    /\ \E r1, r2 \in ResultsWhen(bela_state.is_streaming),
          streaming2 \in StreamingWhen(bela_state.is_streaming) :
        Finish(Pipeline(ch_cmd.arg, bela_state, r1, streaming2, r2))

FuzzAudioSrc ==
    /\ ch_pc = "dispatch"
    /\ ch_cmd.kind = "audio_src"
    /\ \E r1, r2 \in ResultsWhen(bela_state.is_streaming),
          streaming2 \in StreamingWhen(bela_state.is_streaming) :
        Finish(AudioSrc(ch_cmd.arg, bela_state, r1, streaming2, r2))

\* the configuration before the command: the current pipeline is the first
\* of its group, no audio source is chosen
FuzzConfig == [ApplianceConfig EXCEPT !.pipeline = 1, !.asrc = <<>>]

\* the cache a lookup finds: the lists the appliance reported
FuzzStates(kind) ==
    IF kind = "pipeline"
    THEN {[BelaStateDefault EXCEPT !.online = TRUE, !.config = <<FuzzConfig>>,
                                   !.pipelines = <<l>>] :
            l \in Candidates \ {<<>>}}
    ELSE {[BelaStateDefault EXCEPT !.online = TRUE, !.config = <<FuzzConfig>>,
                                   !.asrcs = a] :
            a \in {<<>>} \cup {<<l>> : l \in Candidates}}

\* ----------------------------------------- requests.rs: the text of a request
\* A Rust value as serde sees it: its kind t, the name of the variant or of
\* the field, the rename given to it, its string, its number, its parts.
Val(t, name, rename, s, n, kids) ==
    [t |-> t, name |-> name, rename |-> rename, s |-> s, n |-> n, kids |-> kids]
None == Val("none", "", "", "", 0, <<>>)
Str(s) == Val("str", "", "", s, 0, <<>>)
Number(n) == Val("num", "", "", "", n, <<>>)
Bool(b) == Val("bool", "", "", "", IF b THEN 1 ELSE 0, <<>>)
Field(name, v) == Val("field", name, "", "", 0, <<v>>)
Struct(fields) == Val("struct", "", "", "", 0, fields)
UnitVariant(name) == Val("unit_variant", name, "", "", 0, <<>>)
NewtypeVariant(name, v) == Val("newtype_variant", name, "", "", 0, <<v>>)
StructVariant(name, rename, fields) == Val("struct_variant", name, rename, "", 0, fields)

\* the values the fields of the requests are drawn from
BitrateValues == {BitrateMin + k * BitrateStep : k \in 0..((BitrateMax - BitrateMin) \div BitrateStep)}
KeyValues == {"testkey", "key2"}
VersionValues == {6, 7}
InterfaceValues == {<<"wlan0", "192.168.1.10">>, <<"eth0", "192.168.1.11">>}
PipelineValues == {"7ca3d9dd20726a7c2dad06948e1eadc6f84c461c", "p2"}
LatencyValues == {LatencyMin, LatencyMax}
DelayValues == {-DelayMax, 0, DelayMax}

\* requests::Start, every optional field present
StartOf(pipeline, delay, max_br, srt_latency) ==
    Struct(<<Field("pipeline", Str(pipeline)), Field("delay", Number(delay)),
             Field("max_br", Number(max_br)), Field("srt_latency", Number(srt_latency)),
             Field("bitrate_overlay", Bool(FALSE)), Field("asrc", Str("No audio")),
             Field("acodec", Str("opus")), Field("remote_key", Str("remote_key")),
             Field("relay_server", Str("1")), Field("relay_account", Str("1"))>>)

\* requests::Request: the requests Belabox builds. Stop carries a u8 in
\* requests.rs and is built with None in Belabox::stop.
Requests ==
    {NewtypeVariant("Keepalive", None)}
        \cup {NewtypeVariant("Stop", v) : v \in {Number(0), None}}
        \cup {NewtypeVariant("Command", UnitVariant(c)) : c \in {"Poweroff", "Reboot"}}
        \cup {NewtypeVariant("Bitrate", Struct(<<Field("max_br", Number(b))>>)) :
                b \in BitrateValues}
        \cup {NewtypeVariant("Netif",
                Struct(<<Field("name", Str(i[1])), Field("ip", Str(i[2])),
                         Field("enabled", Bool(e))>>)) :
                i \in InterfaceValues, e \in BOOLEAN}
        \cup {NewtypeVariant("Remote",
                StructVariant("AuthKey", "auth/key",
                    <<Field("key", Str(k)), Field("version", Number(v))>>)) :
                k \in KeyValues, v \in VersionValues}
        \cup {NewtypeVariant("Remote",
                StructVariant("AuthToken", "auth/token",
                    <<Field("token", Str(k)), Field("version", Number(v))>>)) :
                k \in KeyValues, v \in VersionValues}
        \cup {NewtypeVariant("Start", StartOf(p, d, b, l)) :
                p \in PipelineValues, d \in DelayValues,
                b \in {BitrateMin, BitrateMax}, l \in LatencyValues}

AsDeclared(name) == name

\* #[serde(rename_all = "camelCase")] on the names of the variants
CamelCase(name) ==
    CASE name = "Bitrate" -> "bitrate"
      [] name = "Command" -> "command"
      [] name = "Keepalive" -> "keepalive"
      [] name = "Netif" -> "netif"
      [] name = "Remote" -> "remote"
      [] name = "Start" -> "start"
      [] name = "Stop" -> "stop"
      [] name = "Poweroff" -> "poweroff"
      [] name = "Reboot" -> "reboot"
      [] name = "AuthKey" -> "authKey"
      [] name = "AuthToken" -> "authToken"

\* the name a variant goes by: its #[serde(rename = ..)], else the camel case
SerializedName(v) == IF v.rename /= "" THEN v.rename ELSE CamelCase(v.name)

\* a JSON string
Quote(s) == "\"" \o s \o "\""

\* serde_json::to_string of a derived Serialize, as tokens: None and () are
\* null, Some(v) is v, a unit variant is its name, a newtype variant is
\* {name: value}, a struct variant is {name: {fields}}, a struct is {fields}
RECURSIVE Serialize(_)
RECURSIVE SerializeFields(_)
SerializeFields(fields) ==
    IF fields = <<>>
    THEN <<>>
    ELSE <<Quote(Head(fields).name), ":">> \o Serialize(Head(fields).kids[1])
            \o (IF Tail(fields) = <<>> THEN <<>> ELSE <<",">>)
            \o SerializeFields(Tail(fields))
Serialize(v) ==
    CASE v.t = "none" -> <<"null">>
      [] v.t = "str" -> <<Quote(v.s)>>
      [] v.t = "num" -> <<ToString(v.n)>>
      [] v.t = "bool" -> <<IF v.n = 1 THEN "true" ELSE "false">>
      [] v.t = "struct" -> <<"{">> \o SerializeFields(v.kids) \o <<"}">>
      [] v.t = "unit_variant" -> <<Quote(SerializedName(v))>>
      [] v.t = "newtype_variant" ->
            <<"{", Quote(SerializedName(v)), ":">> \o Serialize(v.kids[1]) \o <<"}">>
      [] v.t = "struct_variant" ->
            <<"{", Quote(SerializedName(v)), ":", "{">> \o SerializeFields(v.kids)
                \o <<"}", "}">>

\* the String the tokens make
RECURSIVE Join(_)
Join(tokens) == IF tokens = <<>> THEN "" ELSE Head(tokens) \o Join(Tail(tokens))

SerIdle ==
    /\ ser_req = None
    /\ ser_msg = <<>>

\* Belabox::send: let message = serde_json::to_string(&request).unwrap()
BelaboxSend ==
    /\ ser_msg = <<>>
    /\ ser_req /= None
    /\ ser_msg' = Serialize(ser_req)
    /\ UNCHANGED <<monVars, sessVars, dispVars, cmdVars, ser_req, bs_writer, nt_pc, nt_left,
                   rs_pc, up_pc, went_out>>

\* ------------------------------------------- the write lock of the cache
\* the tasks that take bela_state.write(): the notification branch of the
\* task that folds events, Monitor::ups and restart of the command handler
Sent(by, what) == [by |-> by, what |-> what]

LockInit ==
    /\ bs_writer = "none"
    /\ nt_pc = "idle"
    /\ nt_left = 0
    /\ rs_pc = "idle"
    /\ up_pc = "idle"
    /\ went_out = <<>>

\* ------------------------------------------- the events folded into the cache
NoEvent == [kind |-> "none", flag |-> FALSE, n |-> 0, tab |-> <<>>]

Event(kind, flag, n, tab) == [kind |-> kind, flag |-> flag, n |-> n, tab |-> tab]

\* messages::Config of a config event: the configuration with max_br n
ConfigOf(n) == [ApplianceConfig EXCEPT !.max_br = n, !.srt_latency = n \div 4]

\* the events of belabox::Message that come off the channel; "other" is one
\* that the match leaves to `_ => {}`
Events ==
    {Event(k, b, 0, <<>>) : k \in {"status", "streaming_status", "remote_encoder"},
                            b \in BOOLEAN}
        \cup {Event(k, FALSE, n, <<>>) : k \in {"config", "bitrate"}, n \in {4000, 6000}}
        \cup {Event("sensors", FALSE, n, <<>>) : n \in {1, 2}}
        \cup {Event("netif", FALSE, 0, <<NetifOf(en)>>) : en \in [{1} -> BOOLEAN]}
        \cup {Event("other", FALSE, 0, <<>>)}

\* the arms of the match that take the write guard
Folded == {"config", "remote_encoder", "netif", "sensors", "bitrate",
           "streaming_status", "status"}

FoldSwapped(st, e) ==
    CASE e.kind = "config" -> [st EXCEPT !.config = <<ConfigOf(e.n)>>]
      [] e.kind = "remote_encoder" -> [st EXCEPT !.online = e.flag]
      [] e.kind = "netif" -> [st EXCEPT !.netif = e.tab]
      [] e.kind = "sensors" -> [st EXCEPT !.sensors = <<[soc_voltage |-> e.n]>>]
      [] e.kind = "bitrate" -> SetConfig(st, "max_br", e.n)
      [] e.kind = "streaming_status" -> [st EXCEPT !.online = e.flag]
      [] e.kind = "status" -> [st EXCEPT !.is_streaming = e.flag]
      [] OTHER -> st

\* handle_belabox_messages: what the arm of an event assigns
Fold(st, e) ==
    CASE e.kind = "config" -> [st EXCEPT !.config = <<ConfigOf(e.n)>>]
      [] e.kind = "remote_encoder" -> [st EXCEPT !.online = e.flag]
      [] e.kind = "netif" -> [st EXCEPT !.netif = e.tab]
      [] e.kind = "sensors" -> [st EXCEPT !.sensors = <<[soc_voltage |-> e.n]>>]
      [] e.kind = "bitrate" -> SetConfig(st, "max_br", e.n)
      [] e.kind = "streaming_status" -> [st EXCEPT !.is_streaming = e.flag]
      [] e.kind = "status" -> [st EXCEPT !.is_streaming = e.flag]
      [] OTHER -> st

UpdInit ==
    /\ upd_pc = "recv"
    /\ upd_ev = NoEvent
    /\ ev_log = <<>>

RaceInit ==
    /\ net_evs = <<>>
    /\ up_n = 0
    /\ mo_n = 0
    /\ announced = <<>>

UpsInit ==
    /\ notify_ups = <<>>
    /\ readings = <<>>
    /\ notices = <<>>

MonInit ==
    /\ UpdInit
    /\ real_netif = <<>>
    /\ RaceInit
    /\ UpsInit

\* handle_belabox_messages: recv gives an event of an arm that folds, and
\* `bela_state.write().await` gives the guard
UpdLock ==
    /\ upd_pc = "recv"
    /\ Len(ev_log) < MaxEvents
    /\ bs_writer = "none"
    /\ \E e \in Events :
        /\ e.kind \in Folded
        /\ upd_ev' = e
    /\ bs_writer' = "updater"
    /\ upd_pc' = "locked"
    /\ UNCHANGED <<sessVars, dispVars, cmdVars, ser_req, ser_msg, nt_pc, nt_left,
                   rs_pc, up_pc, went_out, ev_log, real_netif, raceVars, upsVars>>

\* handle_belabox_messages: the assignment of the arm, and the guard dropped
\* at the end of the arm
UpdFold ==
    /\ upd_pc = "locked"
    /\ bela_state' = Fold(bela_state, upd_ev)
    /\ ev_log' = Append(ev_log, upd_ev)
    /\ upd_ev' = NoEvent
    /\ bs_writer' = "none"
    /\ upd_pc' = "recv"
    /\ UNCHANGED <<sessVars, dispVars, ser_req, ser_msg, nt_pc, nt_left, rs_pc, up_pc,
                   went_out, ch_pc, ch_cmd, ch_streaming, ch_found, log,
                   real_netif, raceVars, upsVars>>

\* handle_belabox_messages: an event of no arm
UpdSkip ==
    /\ upd_pc = "recv"
    /\ Len(ev_log) < MaxEvents
    /\ \E e \in Events :
        /\ e.kind \notin Folded
        /\ ev_log' = Append(ev_log, e)
    /\ UNCHANGED <<sessVars, dispVars, cmdVars, auxVars, upd_pc, upd_ev,
                   real_netif, raceVars, upsVars>>

\* run: a bitrate command of a sender who may use it, and the online check
BitrateCommands == [kind : {"bitrate"}, arg : {Num(3000), Num(20000)}]

UpdRunBitrate ==
    /\ ch_pc = "idle"
    /\ ch_cmd.kind = "none"
    /\ bs_writer = "none"
    /\ \E cmd \in BitrateCommands :
        /\ ch_cmd' = cmd
        /\ IF IsOffline(bela_state)
           THEN /\ log' = <<Chat("Offline :(")>>
                /\ ch_pc' = "idle"
           ELSE /\ log' = <<>>
                /\ ch_pc' = "dispatch"
    /\ UNCHANGED <<sessVars, dispVars, auxVars, monVars, bela_state, ch_streaming, ch_found>>

\* bitrate: its write of the cache waits for the guard
UpdBitrate ==
    /\ bs_writer = "none"
    /\ NumBitrate

\* ------------------------------------------ Monitor::modems and the stored table
\* the tables the appliance reports: any of the interfaces, all enabled
ReportedTables == {NetifOf([k \in S |-> TRUE]) : S \in SUBSET NetifNames}

\* an announcement: the interfaces named as now connected and as
\* disconnected; nothing is sent when both are empty
Announcement(added, removed) == [added |-> added, removed |-> removed]

\* Monitor::modems: `previous` is the table in the cache, added the keys of
\* netif that previous lacks, removed the keys of previous that netif lacks
Modems(netif, st) ==
    IF st.netif = <<>>
    THEN Announcement({}, {})
    ELSE LET previous == st.netif[1]
         IN  Announcement(DOMAIN netif \ DOMAIN previous, DOMAIN previous \ DOMAIN netif)

\* handle_messages: the appliance reports a table, message_tx.send gives it
\* to every receiver
RaceEvent ==
    /\ Len(net_evs) < MaxTables
    /\ \E t \in ReportedTables : net_evs' = Append(net_evs, t)
    /\ UNCHANGED <<sessVars, dispVars, cmdVars, auxVars, updVars, real_netif, upsVars,
                   up_n, mo_n, announced>>

\* handle_belabox_messages: its receiver gives the next table, the arm
\* stores it
RaceStore ==
    /\ up_n < Len(net_evs)
    /\ bela_state' = Fold(bela_state, Event("netif", FALSE, 0, <<net_evs[up_n + 1]>>))
    /\ up_n' = up_n + 1
    /\ UNCHANGED <<sessVars, dispVars, auxVars, updVars, real_netif, upsVars,
                   net_evs, mo_n, announced, ch_pc, ch_cmd, ch_streaming, ch_found, log>>

\* Monitor::run: its receiver gives the next table, modems is called
RaceModems ==
    /\ mo_n < Len(net_evs)
    /\ announced' = Append(announced, Modems(net_evs[mo_n + 1], bela_state))
    /\ mo_n' = mo_n + 1
    /\ UNCHANGED <<sessVars, dispVars, cmdVars, auxVars, updVars, real_netif, upsVars,
                   net_evs, up_n>>

\* ------------------------------------------------------------ Monitor::ups
\* config::Monitor::default().ups_plugged_in, 5.1 V, in millivolts
UpsPluggedIn == 5100

\* sensors.soc_voltage: None, or the text of a voltage, here in millivolts
Readings ==
    {<<>>} \cup {<<UpsPluggedIn + d>> : d \in {-10, -1, 0, 9}}

\* f64: the voltages of 4.00 V to 5.99 V, in hundredths, whose product with
\* 100.0 is the f64 just below the whole number (5.1 * 100.0 is
\* 509.99999999999994); the product of every other voltage of up to three
\* decimals has the whole part of the exact product
LowProducts ==
    {402, 406, 410, 414, 427, 431, 435, 439, 452, 456, 460, 464, 477, 481, 485, 489,
     502, 506, 510}

\* f64: (voltage * 100.0).floor(), of a voltage in millivolts
FloorOfHundredfold(voltage) ==
    IF voltage % 10 = 0 /\ (voltage \div 10) \in LowProducts
    THEN (voltage \div 10) - 1
    ELSE voltage \div 10

\* ups: `(voltage * 100.0).floor() / 100.0 >= plugged_voltage`
PluggedIn(voltage, plugged_voltage) == FloorOfHundredfold(voltage) * 10 >= plugged_voltage

\* ups: `match notify { Some(n) => *n, None => plugged_in }`
CurrentNotify(notify, plugged_in) ==
    IF notify = <<>> THEN plugged_in ELSE notify[1]

\* Monitor::ups: what it leaves in notify_ups and the notice it sends
MonitorUps(sensors, plugged_voltage, notify) ==
    IF sensors = <<>>
    THEN [notify |-> notify, notice |-> "none"]
    ELSE LET plugged_in == PluggedIn(sensors[1], plugged_voltage)
             current_notify == CurrentNotify(notify, plugged_in)
             notice == CASE plugged_in /\ ~current_notify -> "BB: UPS  charging"
                         [] ~plugged_in /\ current_notify -> "BB: UPS not charging"
                         [] OTHER -> "none"
         IN  [notify |-> <<plugged_in>>, notice |-> notice]

\* Monitor::run: a sensors event, given to ups
UpsReading ==
    /\ Len(readings) < MaxReadings
    /\ \E sensors \in Readings :
        LET o == MonitorUps(sensors, UpsPluggedIn, notify_ups)
        IN  /\ notify_ups' = o.notify
            /\ readings' = Append(readings, sensors)
            /\ notices' = Append(notices, o.notice)
    /\ UNCHANGED <<sessVars, dispVars, cmdVars, auxVars, updVars, real_netif, raceVars>>

\* ---------------------------------- network commands and the appliance's table
\* what a netif request does to the table of the appliance
ApplyNetif(table, req) == [table EXCEPT ![req.name].enabled = req.enabled]

\* the netif intents of a log that resolved Ok
NetifSent(l) == SelectSeq(l, LAMBDA e : e.op = "netif" /\ e.res = "ok")

\* run: a network command of a sender who may use it, and the online check
TgTake ==
    /\ ch_pc = "idle"
    /\ \E cmd \in NetCommands :
        /\ ch_cmd' = cmd
        /\ IF IsOffline(bela_state)
           THEN /\ log' = <<Chat("Offline :(")>>
                /\ ch_pc' = "idle"
           ELSE /\ log' = <<>>
                /\ ch_pc' = "dispatch"
    /\ UNCHANGED <<sessVars, dispVars, auxVars, monVars, bela_state, ch_streaming, ch_found>>

\* network, from the read of the cached table to the response; the appliance
\* applies the request of an intent that resolved Ok
TgNetwork ==
    /\ ch_pc = "dispatch"
    /\ ch_cmd.kind = "network"
    /\ \E res \in Results :
        LET o == Network(ch_cmd.arg, bela_state, res)
            reqs == NetifSent(o.log)
        IN  /\ log' = o.log
            /\ bela_state' = o.state
            /\ ch_pc' = o.pc
            /\ real_netif' = IF reqs = <<>> THEN real_netif
                              ELSE ApplyNetif(real_netif, reqs[1].req[1])
    /\ UNCHANGED <<sessVars, dispVars, auxVars, updVars, raceVars, upsVars, ch_cmd,
                   ch_streaming, ch_found>>

\* the appliance reports its table and handle_belabox_messages stores it:
\* `lock.netif = Some(netif)`
TgNetifEvent ==
    /\ bela_state' = Fold(bela_state, Event("netif", FALSE, 0, <<real_netif>>))
    /\ UNCHANGED <<sessVars, dispVars, auxVars, monVars, ch_pc, ch_cmd, ch_streaming,
                   ch_found, log>>

AuxInit ==
    /\ SerIdle
    /\ LockInit
    /\ MonInit

\* notifications: `let mut lock = self.bela_state.write().await` for an event
\* that shows n notifications
NtLock ==
    /\ nt_pc = "idle"
    /\ bs_writer = "none"
    /\ Len(went_out) < MaxOut
    /\ \E n \in 1..MaxNotes : nt_left' = n
    /\ bs_writer' = "notifications"
    /\ nt_pc' = "loop"
    /\ UNCHANGED <<monVars, sessVars, dispVars, cmdVars, ser_req, ser_msg, rs_pc, up_pc, went_out>>

\* notifications: a notification shown less than the timeout ago: `continue`
NtSkip ==
    /\ nt_pc = "loop"
    /\ nt_left > 0
    /\ nt_left' = nt_left - 1
    /\ UNCHANGED <<monVars, sessVars, dispVars, cmdVars, ser_req, ser_msg, bs_writer, nt_pc,
                   rs_pc, up_pc, went_out>>

\* notifications: the timeout entry is set and self.send(..) is called
NtSend ==
    /\ nt_pc = "loop"
    /\ nt_left > 0
    /\ nt_pc' = "send"
    /\ UNCHANGED <<monVars, sessVars, dispVars, cmdVars, ser_req, ser_msg, bs_writer, nt_left,
                   rs_pc, up_pc, went_out>>

\* notifications: the `.await` of the send returns, the loop goes on
NtSent ==
    /\ nt_pc = "send"
    /\ went_out' = Append(went_out, Sent("notifications", "chat"))
    /\ nt_left' = nt_left - 1
    /\ nt_pc' = "loop"
    /\ UNCHANGED <<monVars, sessVars, dispVars, cmdVars, ser_req, ser_msg, bs_writer, rs_pc, up_pc>>

\* notifications: the function returns and the guard is dropped
NtUnlock ==
    /\ nt_pc = "loop"
    /\ nt_left = 0
    /\ bs_writer' = "none"
    /\ nt_pc' = "idle"
    /\ UNCHANGED <<monVars, sessVars, dispVars, cmdVars, ser_req, ser_msg, nt_left, rs_pc, up_pc,
                   went_out>>

\* restart: `let mut lock = self.bela_state.write().await`
RsLock ==
    /\ rs_pc = "idle"
    /\ bs_writer = "none"
    /\ Len(went_out) < MaxOut
    /\ bs_writer' = "restart"
    /\ rs_pc' = "locked"
    /\ UNCHANGED <<monVars, sessVars, dispVars, cmdVars, ser_req, ser_msg, nt_pc, nt_left,
                   up_pc, went_out>>

\* restart: the end of the block, by `return Err(AlreadyRestarting)`, with
\* is_streaming true or with is_streaming false: the guard is dropped
RsUnlock ==
    /\ rs_pc = "locked"
    /\ bs_writer' = "none"
    /\ \E next \in {"refused", "stop", "reboot"} : rs_pc' = next
    /\ UNCHANGED <<monVars, sessVars, dispVars, cmdVars, ser_req, ser_msg, nt_pc, nt_left,
                   up_pc, went_out>>

\* restart: self.belabox.stop().await? returns, Ok or Err; an Err is
\* answered by run
RsStop ==
    /\ rs_pc = "stop"
    /\ \E res \in Results :
        /\ rs_pc' = IF Propagates(res) THEN "refused" ELSE "reboot"
        /\ went_out' = Append(went_out, Sent("restart", "stop"))
    /\ UNCHANGED <<monVars, sessVars, dispVars, cmdVars, ser_req, ser_msg, bs_writer, nt_pc,
                   nt_left, up_pc>>

\* restart: self.belabox.restart().await? returns, and the response of run
RsReboot ==
    /\ rs_pc = "reboot"
    /\ went_out' = went_out \o <<Sent("restart", "reboot"), Sent("restart", "chat")>>
    /\ rs_pc' = "idle"
    /\ UNCHANGED <<monVars, sessVars, dispVars, cmdVars, ser_req, ser_msg, bs_writer, nt_pc,
                   nt_left, up_pc>>

\* run: the response to a restart that returned an Err
RsRefused ==
    /\ rs_pc = "refused"
    /\ went_out' = Append(went_out, Sent("restart", "chat"))
    /\ rs_pc' = "idle"
    /\ UNCHANGED <<monVars, sessVars, dispVars, cmdVars, ser_req, ser_msg, bs_writer, nt_pc,
                   nt_left, up_pc>>

\* ups: `let mut lock = self.bela_state.write().await` in the block that
\* computes `charging`
UpLock ==
    /\ up_pc = "idle"
    /\ bs_writer = "none"
    /\ Len(went_out) < MaxOut
    /\ bs_writer' = "ups"
    /\ up_pc' = "locked"
    /\ UNCHANGED <<monVars, sessVars, dispVars, cmdVars, ser_req, ser_msg, nt_pc, nt_left,
                   rs_pc, went_out>>

\* ups: the end of the block; charging is Some(_) or None
UpUnlock ==
    /\ up_pc = "locked"
    /\ bs_writer' = "none"
    /\ \E charging \in {"some", "none"} :
        up_pc' = IF charging = "some" THEN "send" ELSE "idle"
    /\ UNCHANGED <<monVars, sessVars, dispVars, cmdVars, ser_req, ser_msg, nt_pc, nt_left,
                   rs_pc, went_out>>

\* ups: self.send(msg).await returns
UpSent ==
    /\ up_pc = "send"
    /\ went_out' = Append(went_out, Sent("ups", "chat"))
    /\ up_pc' = "idle"
    /\ UNCHANGED <<monVars, sessVars, dispVars, cmdVars, ser_req, ser_msg, bs_writer, nt_pc,
                   nt_left, rs_pc>>

Notifications ==
    \/ NtLock
    \/ NtSkip
    \/ NtSend
    \/ NtSent
    \/ NtUnlock

Restart ==
    \/ RsLock
    \/ RsUnlock
    \/ RsStop
    \/ RsReboot
    \/ RsRefused

Ups ==
    \/ UpLock
    \/ UpUnlock
    \/ UpSent

\* ------------------------------------------------------- specification
Init ==
    /\ SessInit
    /\ DispInit
    /\ AuxInit
    /\ CmdInit

Next ==
    \/ Supervisor
    \/ Keepalive
    \/ Gateway
    \/ Submit

Spec == Init /\ [][Next]_vars

\* What the runtime and the transport guarantee: a task that can take a step
\* of its own takes it, connect_async returns, a write returns. Nothing makes
\* a read return, a caller submit, or the remote end accept.
Fairness ==
    /\ WF_vars(SupConnectOk \/ SupConnectFail)
    /\ WF_vars(SupBackoffDone)
    /\ WF_vars(SupAuthOk \/ SupAuthErr)
    /\ WF_vars(SupInstall)
    /\ WF_vars(SupCancel)
    /\ WF_vars(SupClear)
    /\ WF_vars(GwRecv)
    /\ WF_vars(GwAcquire)
    /\ WF_vars(GwWriteOk \/ GwWriteErr)
    /\ \A c \in Conns :
        /\ WF_vars(TickerWake(c))
        /\ WF_vars(TickerLockReq(c))
        /\ WF_vars(TickerAcquire(c))
        /\ WF_vars(TickerWriteOk(c) \/ TickerWriteErr(c))

FairSpec == Spec /\ Fairness

\* The inbound side on its own: one call of handle_messages and the receivers
\* of the broadcast channel, the session left as it starts.
DispNext ==
    \/ HandleMessages
    \/ Receivers

DispSpec == Init /\ [][DispNext]_vars

\* The command handler and the task that folds the appliance's events into
\* the cache, the session and the dispatcher left as they start; how each
\* intent resolves is the environment's choice.
CmdNext ==
    \/ StateUpdater
    \/ CommandHandler

CmdSpec == Init /\ [][CmdNext]_vars

\* A command that has been taken runs to its end: every await of the handler
\* returns. Nothing makes a chat message or an event of the appliance arrive.
CmdFairness ==
    /\ WF_vars(ChStart)
    /\ WF_vars(ChStop)
    /\ WF_vars(ChRestartBegin)
    /\ WF_vars(ChRestartStop)
    /\ WF_vars(ChRestartReboot)
    /\ WF_vars(ChChangeBegin)
    /\ WF_vars(ChChangeStop)
    /\ WF_vars(ChChangeNotice)
    /\ WF_vars(ChChangeSleep)
    /\ WF_vars(ChChangeWrite)
    /\ WF_vars(ChChangeStart)

FairCmdSpec == CmdSpec /\ CmdFairness

\* One command with a numeric argument, drawn with the cache it finds, and
\* handled from the dispatch of run to the response.
NumInit ==
    /\ SessInit
    /\ DispInit
    /\ AuxInit
    /\ bela_state \in CachedStates
    /\ ch_cmd \in NumCommands
    /\ ch_pc = "dispatch"
    /\ ch_streaming = FALSE
    /\ ch_found = FALSE
    /\ log = <<>>

NumNext ==
    \/ NumBitrate
    \/ NumLatency
    \/ NumAudioDelay

NumSpec == NumInit /\ [][NumNext]_vars

\* One network command, drawn with the interface table it finds in the cache.
NetInit ==
    /\ SessInit
    /\ DispInit
    /\ AuxInit
    /\ bela_state \in NetStates
    /\ ch_cmd \in NetCommands
    /\ ch_pc = "dispatch"
    /\ ch_streaming = FALSE
    /\ ch_found = FALSE
    /\ log = <<>>

NetNext == NetNetwork

NetSpec == NetInit /\ [][NetNext]_vars

\* One chat message that names a command, drawn with its sender, the tier of
\* the command and the cache it finds, handled from its receipt to the
\* response.
PermInit ==
    /\ SessInit
    /\ DispInit
    /\ AuxInit
    /\ bela_state \in PermStates
    /\ ch_cmd \in PermCommands
    /\ ch_pc = "received"
    /\ ch_streaming = FALSE
    /\ ch_found = FALSE
    /\ log = <<>>

PermNext ==
    \/ PermTake
    \/ ChStart
    \/ ChStop
    \/ ChRestartBegin
    \/ ChRestartStop
    \/ ChRestartReboot

PermSpec == PermInit /\ [][PermNext]_vars

\* One pipeline or audio_src command, drawn with the list it is looked up
\* in.
FuzzInit ==
    /\ SessInit
    /\ DispInit
    /\ AuxInit
    /\ ch_cmd \in FuzzCommands
    /\ bela_state \in FuzzStates(ch_cmd.kind)
    /\ ch_pc = "dispatch"
    /\ ch_streaming = FALSE
    /\ ch_found = FALSE
    /\ log = <<>>

FuzzNext ==
    \/ FuzzPipeline
    \/ FuzzAudioSrc

FuzzSpec == FuzzInit /\ [][FuzzNext]_vars

\* One request, drawn from those Belabox builds, and made into its message.
SerInit ==
    /\ SessInit
    /\ DispInit
    /\ CmdInit
    /\ LockInit
    /\ MonInit
    /\ ser_req \in Requests
    /\ ser_msg = <<>>

SerNext == BelaboxSend

SerSpec == SerInit /\ [][SerNext]_vars

\* The tasks that write the cache, each taking the lock as its code does;
\* when a notification event, a sensors event or a restart command arrives
\* is the environment's choice.
LockNext ==
    \/ Notifications
    \/ Restart
    \/ Ups

LockSpec == Init /\ [][LockNext]_vars

\* The task that folds the events, with a bitrate command of the command
\* handler beside it.
FoldNext ==
    \/ UpdLock
    \/ UpdFold
    \/ UpdSkip
    \/ UpdRunBitrate
    \/ UpdBitrate

FoldSpec == Init /\ [][FoldNext]_vars

\* Network commands one after another, the appliance reporting its table
\* whenever it does; the appliance starts with at least one interface enabled.
ToggleInit ==
    /\ SessInit
    /\ DispInit
    /\ CmdInit
    /\ SerIdle
    /\ LockInit
    /\ UpdInit
    /\ RaceInit
    /\ UpsInit
    /\ real_netif \in {NetifOf(en) : en \in {t \in NetifTables : \E k \in DOMAIN t : t[k]}}

ToggleNext ==
    \/ FoldRemoteEncoder
    \/ TgTake
    \/ TgNetwork
    \/ TgNetifEvent

ToggleSpec == ToggleInit /\ [][ToggleNext]_vars

\* The appliance reporting its tables to the task that stores them and to
\* the monitor, each taking them off its own receiver.
RaceNext ==
    \/ RaceEvent
    \/ RaceStore
    \/ RaceModems

RaceSpec == Init /\ [][RaceNext]_vars

\* The sensors events of the appliance, given to the monitor one by one.
UpsNext == UpsReading

UpsSpec == Init /\ [][UpsNext]_vars

\* ---------------------------------------------------------------- claims
\* C1: the waits of a run of failed attempts to open the transport are
\* 2, 4, 8, 16, 32, 32, ... seconds (min(2^n, 32) for the n-th failure), and
\* the run that follows a successful connect starts again at 2.
ExpectedWait(n) == IF 2 ^ n < 32 THEN 2 ^ n ELSE 32
C1_BackoffSequence ==
    \A n \in 1..Len(waits) : waits[n] = ExpectedWait(n)
\* a full run of failures, up to the cap, after a successful connect
C1_Witness ==
    /\ nconn >= 1
    /\ sup_pc = "backoff"
    /\ Len(waits) = MaxFails
    /\ waits[MaxFails] = 32

\* C2: every intent handed to Belabox::send resolves exactly once: its slot
\* never receives a second outcome, and it does receive one, also when the
\* connection drops while its frame is being written.
C2_ResolvesExactlyOnce ==
    /\ [](\A i \in Intents : Len(outcome[i]) <= 1)
    /\ \A i \in Intents : (i <= nsub) ~> (Len(outcome[i]) = 1)
\* the write failed on a connection whose message loop has ended and whose
\* writer the supervisor is about to clear
C2_Witness ==
    /\ sup_pc = "clear"
    /\ outcome[1] = <<"send">>
    /\ written_to[1] = request_write

C5_NeverGivesUp ==
    (sup_pc \in {"backoff", "cancel", "clear"}) ~> (sup_pc = "connect")
\* attempting again after a dropped connection and a full run of failures
C5_Witness ==
    /\ sup_pc = "connect"
    /\ ended_by \in {"error", "close"}
    /\ Len(waits) = MaxFails

\* C6: on every connection the first frame written is the authentication
\* frame: none of a gateway intent, none of a keepalive comes before it.
C6_AuthFirst ==
    \A c \in Conns : first_frame[c] \in {"none", "auth"}
\* an intent written on the connection of a reconnect
C6_Witness ==
    /\ first_frame[2] = "auth"
    /\ \E i \in Intents : written_to[i] = 2 /\ outcome[i] = <<"ok">>

Writers ==
    {p \in {GW} \cup {KA(c) : c \in Conns} :
        \/ p = GW /\ gw_pc = "write"
        \/ \E c \in Conns : p = KA(c) /\ ticker[c].pc = "write"}
C8_OneWriter ==
    /\ Cardinality(Writers) <= 1
    /\ \A p \in Writers : lock /= <<>> /\ Head(lock) = p
    /\ sup_pc = "auth" => request_write /= nconn
\* a command frame waits for the guard while a keepalive frame is written
C8_Witness ==
    /\ gw_pc = "wait"
    /\ \E c \in Conns : ticker[c].pc = "write"

\* C9 as stated: a write error on the installed writer, while the supervisor
\* is in the connection's message loop, makes the supervisor leave that loop
\* (to cancel the ticker, clear the shared writer and reconnect).
C9_Original == (wrerr /\ sup_pc = "read") ~> (sup_pc /= "read")

\* C10 as stated: once the message loop of a connection has ended and the
\* supervisor has dealt with it, the next cancellation check of that
\* connection's ticker stops the ticker.
LoopEnded(c) ==
    \/ c < nconn
    \/ c = nconn /\ ended_by = "authfail"
    \/ c = nconn /\ ended_by \in {"error", "close"} /\ sup_pc /= "cancel"
C10_Original ==
    [][\A c \in Conns :
        (LoopEnded(c) /\ ticker[c].pc = "sleep" /\ ticker'[c].pc /= "sleep")
            => ticker'[c].pc = "done"]_vars

\* C11 as stated: whenever the supervisor has no open connection (before the
\* first connection, while connecting or backing off, or after the supervisor
\* task has ended) the shared writer is None. The two steps between the end
\* of a message loop and the clearing of the writer are left out of the
\* statement, so that only the paths which never clear it can violate it.
C11_Original ==
    sup_pc \in {"connect", "backoff", "ended"} => request_write = 0

\* C12: the fields of an inbound object frame are decoded one by one: a field
\* that fails to decode is passed over and every other field of the frame
\* that decodes is still broadcast, so at every moment the events broadcast
\* are exactly the decodable fields iterated so far, in order; a frame that is
\* not JSON or not an object is passed over and the read loop goes on, which
\* it leaves with Ok only when the stream ends.
Iterated == Len(seen) - Len(hm_frame)
GoodPos(n) == SelectSeq([i \in 1..n |-> i], LAMBDA p : seen[p] \in EventKinds)
C12_FieldsDecodedIndependently ==
    /\ sent = GoodPos(Iterated)
    /\ last_read \in SkippedFrames => hm_pc = "read"
    /\ hm_pc = "closed" => last_read = "end"
\* one frame whose first field failed to decode and whose second was
\* broadcast, then a frame that is not JSON, the loop still reading
C12_Witness ==
    /\ seen = <<"undecodable", "event">>
    /\ sent = <<2>>
    /\ nframes = 2
    /\ last_read = "not_json"
    /\ hm_pc = "read"

\* C13: every decoded Event that is not a failed authentication result goes
\* to all receivers that exist at that moment, and the send never waits for a
\* receiver: with no receiver at all, or with a receiver whose queue is full,
\* the dispatch loop can always take its step.
C13_BroadcastNeverBlocks ==
    /\ (hm_pc = "field" /\ Head(hm_frame) \in EventKinds) => ENABLED HmFieldSend
    /\ \A s \in Subs :
        (rx[s].st = "open" /\ ~rx[s].lag) =>
            rx[s].got \o rx[s].queue = SubSeq(sent, rx[s].from + 1, Len(sent))
\* an event went out while there was no receiver, a receiver then subscribed
\* and took none of the next events, and with its queue full one more went out
C13_Witness ==
    \E s \in Subs :
        /\ rx[s].st = "open"
        /\ rx[s].from > 0
        /\ rx[s].lag
        /\ Len(sent) = rx[s].from + ChanCap + 1

\* C14: within one connection every receiver gets the events in the order in
\* which their frames were received and, within one frame, in the order in
\* which the fields are iterated.
Increasing(q) == \A i \in 1..(Len(q) - 1) : q[i] < q[i + 1]
C14_ReceivedInOrder ==
    \A s \in Subs : Increasing(rx[s].got \o rx[s].queue)
\* a receiver that took events of two frames, two of them from one frame
C14_Witness ==
    \E s \in Subs :
        /\ Len(rx[s].got) >= 3
        /\ nframes = 2

\* C15: a restart command taken while the restart-pending flag is true ends
\* with the AlreadyRestarting error as its response, sends no stop and no
\* reboot intent and leaves the cached appliance state as it was, so no second
\* restart is ever under way.
C15_RestartRefusedWhilePending ==
    [][(ch_pc = "r_begin" /\ ch_pc' /= "r_begin" /\ bela_state.restart) =>
            /\ bela_state' = bela_state
            /\ ch_pc' = "idle"
            /\ log' = Append(log, Chat(ErrorText))]_vars
\* a restart command refused because an earlier one set the flag
C15_Witness ==
    /\ ch_cmd.kind = "restart"
    /\ ch_pc = "idle"
    /\ bela_state.restart
    /\ bela_state.online
    /\ \E i \in 1..Len(log) : log[i] = Chat(ErrorText)
    /\ \A i \in 1..Len(log) : log[i].op \in {"chat", "status"}

\* C16 as stated: the step that folds a streaming-status event into the cache
\* leaves the restart-pending flag false.
C16_Original ==
    [][(Len(log') = Len(log) + 1 /\ log'[Len(log')].op = "status") =>
            ~bela_state'.restart]_vars

\* C17 as stated: once a restart command issued while the stream was running
\* has sent its reboot and a streaming-status event has been folded after it,
\* a start intent goes out without any further command.
RebootedThenStatus ==
    /\ ch_cmd.kind = "restart"
    /\ ch_streaming
    /\ \E i, j \in 1..Len(log) :
        /\ i < j
        /\ log[i] = Intent("reboot", "ok", <<>>)
        /\ log[j].op = "status"
StartAfterReboot ==
    \E i, j \in 1..Len(log) :
        /\ i < j
        /\ log[i].op = "reboot"
        /\ log[j].op = "start"
C17_Original == RebootedThenStatus ~> StartAfterReboot

\* C18: a restart command taken with no restart pending: reads the cache; if
\* it says streaming, sets the flag and sends a stop intent first, the reboot
\* intent only after the stop resolved with success; if it says not
\* streaming, sends the reboot intent alone and does not set the flag.
IntentsOf(l) == SelectSeq(l, LAMBDA e : e.op \in {"start", "stop", "reboot"})
RestartAccepted ==
    /\ ch_cmd.kind = "restart"
    /\ \/ ch_pc \in {"r_stop", "r_reboot"}
       \/ ch_pc = "idle" /\ IntentsOf(log) /= <<>>
C18_StopBeforeReboot ==
    RestartAccepted =>
        LET I == IntentsOf(log)
        IN  IF ch_streaming
            THEN /\ bela_state.restart
                 /\ Len(I) <= 2
                 /\ Len(I) >= 1 => I[1].op = "stop"
                 /\ Len(I) = 2 => I[1].res = "ok" /\ I[2].op = "reboot"
                 /\ ch_pc = "r_reboot" => Len(I) = 1 /\ I[1].res = "ok"
                 /\ ch_pc = "idle" => Len(I) = 2 \/ I[1].res /= "ok"
            ELSE /\ ~bela_state.restart
                 /\ Len(I) <= 1
                 /\ Len(I) = 1 => I[1].op = "reboot"
\* a restart of a running stream that sent its stop and then its reboot
C18_Witness ==
    /\ RestartAccepted
    /\ ch_streaming
    /\ ch_pc = "idle"
    /\ Len(IntentsOf(log)) = 2
    /\ log[Len(log)] = Chat("Rebooting BELABOX")

\* C19: a latency, audio-delay, pipeline or audio-source change taken while
\* the cache says streaming does its steps in the order stop intent, restart
\* notice, settle delay, change of the cached configuration, start intent,
\* none of them without the ones before it from the notice on; when the stop
\* intent fails the command ends there with the error: no notice, no change
\* of the cached configuration, no start intent.
Rank(e) ==
    CASE e.op = "stop" -> 1
      [] e = Chat("Restarting the stream") -> 2
      [] e.op = "sleep" -> 3
      [] e.op = "write" -> 4
      [] e.op = "start" -> 5
      [] OTHER -> 0
Steps == SelectSeq(log, LAMBDA e : Rank(e) > 0)
Ranks == [i \in 1..Len(Steps) |-> Rank(Steps[i])]
HasRank(n) == \E i \in 1..Len(Steps) : Ranks[i] = n
C20_StartFromCache ==
    [][(ch_pc = "start" /\ ch_pc' = "idle") =>
            LET I == IntentsOf(SubSeq(log', Len(log) + 1, Len(log')))
                resp == log'[Len(log')]
            IN  /\ resp.op = "chat"
                /\ IF bela_state.config = <<>>
                   THEN I = <<>>
                   ELSE IF bela_state.is_streaming
                   THEN I = <<>> /\ resp.res = "Error already streaming"
                   ELSE /\ Len(I) = 1
                        /\ I[1].op = "start"
                        /\ I[1].req = <<StartFrom(bela_state.config[1])>>
                        /\ I[1].res = "ok" => resp.res = "Starting BELABOX"]_vars
\* a start command that sent its intent, built from a configuration that a
\* latency command had changed, and answered "Starting BELABOX"
C20_Witness ==
    /\ ch_cmd.kind = "start"
    /\ ch_pc = "idle"
    /\ \E i \in 1..Len(log) :
        /\ log[i].op = "start"
        /\ log[i].res = "ok"
        /\ log[i].req = <<StartFrom(bela_state.config[1])>>
        /\ log[i].req[1].srt_latency /= ApplianceConfig.srt_latency
    /\ \E i \in 1..Len(log) : log[i] = Chat("Starting BELABOX")

\* C21: a command taken while the cached state says the appliance is offline
\* is answered with "Offline :(" and nothing else: the handler stays idle, no
\* intent is sent and the cached state is left as it was, whatever the command
\* kind; the only other steps from there are the state updater's folds.
C21_OfflineOnlyResponds ==
    [][(ch_pc = "idle" /\ ~bela_state.online) =>
            /\ ch_pc' = "idle"
            /\ \/ log' = <<Chat("Offline :(")>> /\ bela_state' = bela_state
               \/ /\ ch_cmd' = ch_cmd
                  /\ \/ log' = log
                     \/ \E b \in BOOLEAN : log' = Append(log, Status(b))]_vars
\* a restart command taken offline, after the appliance had been streaming
\* with a cached configuration, answered by the offline response alone
C21_Witness ==
    /\ ~bela_state.online
    /\ bela_state.is_streaming
    /\ bela_state.config /= <<>>
    /\ ch_cmd.kind = "restart"
    /\ ch_pc = "idle"
    /\ log = <<Chat("Offline :(")>>

\* C25: an intent that fails, or a restart refused because one is pending,
\* is turned into the one chat response "Error BELABOX error"; the command
\* ends there (no further intent, sleep or write follows: the failed intent
\* is not retried) and the handler is back at its receive, able to take the
\* next command.
C25_ErrorEndsCommand ==
    \A i \in 1..Len(log) :
        /\ (log[i].op \in {"start", "stop", "reboot"} /\ log[i].res /= "ok") =>
                i < Len(log) /\ log[i + 1] = Chat(ErrorText)
        /\ log[i] = Chat(ErrorText) =>
                /\ ch_pc = "idle"
                /\ ENABLED ChTake
                /\ \A j \in (i + 1)..Len(log) : log[j].op = "status"
\* a latency change whose stop intent succeeded and whose start intent failed
C25_Witness ==
    /\ ch_cmd.kind = "latency"
    /\ ch_pc = "idle"
    /\ \E i \in 1..Len(log) : log[i].op = "stop" /\ log[i].res = "ok"
    /\ \E i \in 1..Len(log) :
        /\ log[i].op = "start"
        /\ log[i].res = "disconnected"
        /\ i < Len(log)
        /\ log[i + 1] = Chat(ErrorText)

\* main: `select! { _ = bot.bb_msg_handle => {} .. }`: the process exits when
\* the task of handle_belabox_messages, the first receiver of the broadcast
\* channel, has ended
ProcessExited == rx[1].st = "ended"

\* run_loop has left its loop: the task of the connection supervisor ended
SupervisorEnded == hm_pc = "ended"

\* C26: the process exits only when the connection supervisor's task (or the
\* chat transport's task, which takes no step here) has ended; a receiver of
\* events that lags behind does not make it exit.
C26_Original == ProcessExited => SupervisorEnded

\* what the cache of a numeric command held before the command
UntouchedCache == bela_state.config /= <<>> => bela_state.config[1] = ApplianceConfig

\* C22: a numeric argument out of range (a bitrate outside 500..12000, a
\* latency outside 100..4000, an audio delay of magnitude over 2000) or not a
\* number is rejected: the one response is the invalid-input message, no
\* intent is sent and the cache is not written.
C22_Original ==
    LET a == ch_cmd.arg
        lo == CASE ch_cmd.kind = "bitrate" -> BitrateMin
                [] ch_cmd.kind = "latency" -> LatencyMin
                [] ch_cmd.kind = "audio_delay" -> -DelayMax
        hi == CASE ch_cmd.kind = "bitrate" -> BitrateMax
                [] ch_cmd.kind = "latency" -> LatencyMax
                [] ch_cmd.kind = "audio_delay" -> DelayMax
    IN  (ch_pc /= "dispatch" /\ a.kind \in {"word", "huge", "num"}
            /\ (a.kind = "num" => a.n < lo \/ a.n > hi)) =>
            /\ ch_pc = "idle"
            /\ Len(log) = 1
            /\ log[1].op = "chat"
            /\ log[1].res \in {"Invalid number {} given",
                               "Invalid value: {}, use a value between 500 - 12000",
                               "Invalid value: {}, use a value between 100 - 4000",
                               "Invalid value: {}, use a value between -2000 - 2000"}
            /\ UntouchedCache

Dist(x, y) == IF x > y THEN x - y ELSE y - x
\* the value the response, the intent and the cache of a finished numeric
\* command carry
Carries(kind, field, r) ==
    IF kind = "bitrate"
    THEN /\ Len(log) = 2
         /\ log[1].op = "bitrate"
         /\ log[1].req = <<[max_br |-> r]>>
         /\ IF log[1].res = "ok"
            THEN /\ log[2] = ChatN("Changed max bitrate to {} kbps", r)
                 /\ bela_state.config /= <<>> => bela_state.config[1].max_br = r
            ELSE UntouchedCache
    ELSE IF \E i \in 1..Len(log) : log[i].op = "stop" /\ log[i].res /= "ok"
    THEN UntouchedCache
    ELSE /\ bela_state.config /= <<>> => bela_state.config[1][field] = r
         /\ \A i \in 1..Len(log) :
                /\ log[i].op = "start" => log[i].req[1][field] = r
                /\ (log[i].op = "chat" /\ log[i].req /= <<>>) => log[i].req = <<[n |-> r]>>
         /\ \E i \in 1..Len(log) : log[i] = Wrote(kind)

\* C23: a numeric argument is normalised to round(value / step) * step with
\* halves rounded away from zero, the step being 250 for the bitrate, 100
\* for the latency and 20 for the audio delay (537 gives 500, 624 gives 500,
\* 1100 gives 1000). For every argument in range the result is the multiple
\* of the step nearest to it, stays in range, and is the value that the
\* intent carries and that is stored in the cached configuration.
C23_NormalisedToStep ==
    /\ IncrementByStep(537, BitrateStep) = 500
    /\ IncrementByStep(624, BitrateStep) = 500
    /\ IncrementByStep(1100, BitrateStep) = 1000
    /\ LET kind == ch_cmd.kind
           n == ch_cmd.arg.n
           lo == CASE kind = "bitrate" -> BitrateMin
                   [] kind = "latency" -> LatencyMin
                   [] kind = "audio_delay" -> -DelayMax
           hi == CASE kind = "bitrate" -> BitrateMax
                   [] kind = "latency" -> LatencyMax
                   [] kind = "audio_delay" -> DelayMax
           step == CASE kind = "bitrate" -> 250
                     [] kind = "latency" -> 100
                     [] kind = "audio_delay" -> 20
           field == CASE kind = "bitrate" -> "max_br"
                      [] kind = "latency" -> "srt_latency"
                      [] kind = "audio_delay" -> "delay"
           below == (n \div step) * step
       IN  (ch_pc /= "dispatch" /\ ch_cmd.arg.kind = "num" /\ n \in lo..hi) =>
                /\ ch_pc = "idle"
                /\ \E r \in {below, below + step} :
                    /\ r % step = 0
                    /\ r \in lo..hi
                    /\ 2 * Dist(r, n) <= step
                    /\ 2 * Dist(r, n) = step => Dist(r, 0) > Dist(n, 0)
                    /\ Carries(kind, field, r)
\* a bitrate of 625, halfway between two multiples of 250: the intent carried
\* 750 and resolved, and 750 is the cached max_br; or an audio delay of -30,
\* halfway between -40 and -20, changed while streaming: -40 is in the cache
\* and in the start intent
C23_Witness ==
    \/ /\ ch_cmd = [kind |-> "bitrate", arg |-> Num(625)]
       /\ log = <<Intent("bitrate", "ok", <<[max_br |-> 750]>>),
                  ChatN("Changed max bitrate to {} kbps", 750)>>
       /\ bela_state.config /= <<>>
       /\ bela_state.config[1].max_br = 750
    \/ /\ ch_cmd = [kind |-> "audio_delay", arg |-> Num(-30)]
       /\ bela_state.config /= <<>>
       /\ bela_state.config[1].delay = -40
       /\ \E i \in 1..Len(log) :
            log[i].op = "start" /\ log[i].res = "ok" /\ log[i].req[1].delay = -40

\* the interfaces of the table that are enabled
EnabledOf(netifs) == {k \in DOMAIN netifs : netifs[k].enabled}
\* the word w names interface k of the table: it is its name, or the custom
\* name given to its name or to its address
Targets(w, k, netifs) ==
    \/ w = k
    \/ \E p \in CustomInterfaceName :
        p[2] = w /\ (p[1] = k \/ p[1] = netifs[k].ip)

\* C24: the network command refuses to disable the only interface left
\* enabled: with a cached table of several interfaces of which exactly one is
\* enabled, a command that names that one sends no netif intent and is
\* answered with the refusal; with a table of exactly one interface no netif
\* intent is sent at all.
C24_KeepsLastInterface ==
    (ch_cmd.kind = "network" /\ ch_pc = "idle" /\ bela_state.netif /= <<>>) =>
        LET netifs == bela_state.netif[1]
            toggles == SelectSeq(log, LAMBDA e : e.op = "netif")
        IN  /\ \A k \in DOMAIN netifs :
                (/\ Cardinality(DOMAIN netifs) > 1
                 /\ EnabledOf(netifs) = {k}
                 /\ ch_cmd.arg.kind = "text"
                 /\ Targets(ch_cmd.arg.n, k, netifs)) =>
                    log = <<Chat("Can't disable all networks")>>
            /\ Cardinality(DOMAIN netifs) = 1 => toggles = <<>>
            /\ \A i \in 1..Len(toggles) :
                ~toggles[i].req[1].enabled => EnabledOf(netifs) \ {toggles[i].req[1].name} /= {}
\* interface 2 is the only one of three left enabled and the command names
\* it by the custom name of its address: refused
C24_Witness ==
    /\ ch_cmd = [kind |-> "network", arg |-> Token(202)]
    /\ ch_pc = "idle"
    /\ bela_state.netif /= <<>>
    /\ DOMAIN bela_state.netif[1] = {1, 2, 3}
    /\ EnabledOf(bela_state.netif[1]) = {2}
    /\ log = <<Chat("Can't disable all networks")>>

\* the tier a sender has and the tier a command asks for, as ranks
SenderRank(hm) ==
    IF hm.broadcaster \/ hm.sender_name \in Admins THEN 3
    ELSE IF hm.moderator THEN 2
    ELSE IF hm.vip THEN 1
    ELSE 0
TierRank(permission) ==
    CASE permission = "Broadcaster" -> 3
      [] permission = "Moderator" -> 2
      [] permission = "Vip" -> 1
      [] permission = "Public" -> 0

\* C27: the tiers are hierarchical: a broadcaster or a configured admin may
\* use the commands of every tier, a moderator those of the moderator, vip
\* and public tier, a vip those of the vip and public tier, anyone those of
\* the public tier. The command of a sender who has the tier is handled (it
\* is answered or under way); the command of a sender who lacks it sends no
\* intent, changes no state and gets no chat response.
C27_TiersGateCommands ==
    ch_pc /= "received" =>
        IF SenderRank(ch_cmd.hm) >= TierRank(ch_cmd.permission)
        THEN ch_pc /= "idle" \/ log /= <<>>
        ELSE /\ ch_pc = "idle"
             /\ log = <<>>
             /\ bela_state \in PermStates
\* a restart by a moderator who is no admin, the command being of the
\* broadcaster tier, while the appliance is online and streaming: dropped
C27_Witness ==
    /\ ch_cmd.kind = "restart"
    /\ ch_cmd.permission = "Broadcaster"
    /\ ch_cmd.hm = [sender_name |-> "viewer", broadcaster |-> FALSE,
                    moderator |-> TRUE, vip |-> TRUE]
    /\ bela_state.online
    /\ bela_state.is_streaming
    /\ ch_pc = "idle"
    /\ log = <<>>

\* the list a finished lookup went through and what it chose
LookedIn ==
    IF ch_cmd.kind = "pipeline"
    THEN PipelinesOf(bela_state)
    ELSE IF bela_state.asrcs = <<>> THEN <<>> ELSE bela_state.asrcs[1]
\* the score of candidate i of that list, by the definition of the
\* coefficient: twice the bigrams common to both (as multisets) over the
\* bigrams of both
DiceOf(i) ==
    LET x == NoWhitespace(ch_cmd.arg)
        y == NoWhitespace(Normalized(ch_cmd.kind, LookedIn[i]))
        bx == Bigrams(x)
        by == Bigrams(y)
        common(g) == LET cx == Cardinality({j \in DOMAIN bx : bx[j] = g})
                         cy == Cardinality({j \in DOMAIN by : by[j] = g})
                     IN  IF cx < cy THEN cx ELSE cy
        RECURSIVE Sum(_)
        Sum(G) == IF G = {} THEN 0
                  ELSE LET g == CHOOSE g \in G : TRUE IN common(g) + Sum(G \ {g})
    IN  IF x = y THEN <<1, 1>>
        ELSE IF Len(x) < 2 \/ Len(y) < 2 THEN <<0, 1>>
        ELSE <<2 * Sum({bx[j] : j \in DOMAIN bx}), Len(x) + Len(y) - 2>>
IsOne(p) == p[1] = p[2]
\* candidate i is the first of maximum score, and that score is not zero
FirstOfMaximum(i) ==
    /\ DiceOf(i)[1] > 0
    /\ \A j \in 1..Len(LookedIn) :
        /\ ~ScoreLess(DiceOf(i), DiceOf(j))
        /\ j < i => ScoreLess(DiceOf(j), DiceOf(i))
\* the finished lookup chose candidate i: the cache and the response hold it
Chose(i) ==
    /\ IF ch_cmd.kind = "pipeline"
       THEN bela_state.config[1].pipeline = i
       ELSE bela_state.config[1].asrc = <<LookedIn[i]>>
    /\ log[Len(log)].req = <<[name |-> LookedIn[i]]>>
\* the finished lookup found nothing: the cached configuration is as it was
ChoseNone ==
    /\ bela_state.config = <<FuzzConfig>>
    /\ log[Len(log)].req = <<>>
    /\ log[Len(log)].res \in {"Pipeline not found", "Audio source not found",
                              "No audio sources found"}

\* C28 as stated, in its last part: a query equal to the normalized name of
\* a candidate selects that candidate (one of that normalized name).
C28_Original ==
    (ch_pc = "idle" /\ ch_cmd.kind \in {"pipeline", "audio_src"}) =>
        \A i \in 1..Len(LookedIn) :
            ch_cmd.arg = Normalized(ch_cmd.kind, LookedIn[i]) =>
                \E k \in 1..Len(LookedIn) :
                    /\ Chose(k)
                    /\ Normalized(ch_cmd.kind, LookedIn[k]) = ch_cmd.arg

\* C28: the lookup scores every candidate against the query and selects the
\* first candidate, in iteration order, of maximum score; when that score is
\* zero or there is no candidate the result is not-found and the cached
\* configuration is unchanged; a query equal to a candidate's normalized name
\* gives that candidate the score 1, the maximum, so that it is selected
\* unless a candidate before it also scores 1.
C28_FirstOfMaximumScore ==
    (ch_pc = "idle" /\ ch_cmd.kind \in {"pipeline", "audio_src"}) =>
        /\ \A i \in 1..Len(LookedIn) : FirstOfMaximum(i) => Chose(i)
        /\ (\A i \in 1..Len(LookedIn) : ~FirstOfMaximum(i)) => ChoseNone
        /\ \A i \in 1..Len(LookedIn) :
            ch_cmd.arg = Normalized(ch_cmd.kind, LookedIn[i]) =>
                /\ IsOne(DiceOf(i))
                /\ \E k \in 1..i : IsOne(DiceOf(k)) /\ Chose(k)
\* two candidates tie below 1 for the query and the first was chosen; the
\* query is neither's normalized name
C28_Witness ==
    /\ ch_pc = "idle"
    /\ ch_cmd.kind = "pipeline"
    /\ Len(LookedIn) = 2
    /\ LookedIn[1] /= LookedIn[2]
    /\ ~ScoreLess(DiceOf(1), DiceOf(2))
    /\ ~ScoreLess(DiceOf(2), DiceOf(1))
    /\ DiceOf(1)[1] > 0
    /\ DiceOf(1)[1] < DiceOf(1)[2]
    /\ Chose(1)

\* the nesting depth after each token of a message, 0 before the first
RECURSIVE DepthAfter(_, _)
DepthAfter(tokens, i) ==
    IF i = 0
    THEN 0
    ELSE DepthAfter(tokens, i - 1)
            + (IF tokens[i] = "{" THEN 1 ELSE IF tokens[i] = "}" THEN -1 ELSE 0)
\* the message is one JSON object with exactly one key at its top level
OneTopLevelKey(tokens, key) ==
    /\ Len(tokens) >= 5
    /\ tokens[1] = "{"
    /\ tokens[2] = Quote(key)
    /\ tokens[3] = ":"
    /\ tokens[Len(tokens)] = "}"
    /\ DepthAfter(tokens, Len(tokens)) = 0
    /\ \A i \in 1..(Len(tokens) - 1) : DepthAfter(tokens, i) >= 1
    /\ \A i \in 1..Len(tokens) : tokens[i] = "," => DepthAfter(tokens, i) >= 2
\* the kind of intent a request is
KindOfRequest(r) ==
    CASE r.name = "Start" -> "start"
      [] r.name = "Stop" -> "stop"
      [] r.name = "Bitrate" -> "bitrate"
      [] r.name = "Netif" -> "netif"
      [] r.name = "Command" -> "command"
      [] r.name = "Remote" -> "remote"
      [] r.name = "Keepalive" -> "keepalive"

\* C29: every request serializes to a JSON object with exactly one
\* top-level key, the name of its kind (start, stop, bitrate, netif, command,
\* remote, keepalive), whose value is the payload: keepalive is
\* {"keepalive":null}, reboot is {"command":"reboot"}, a bitrate of N is
\* {"bitrate":{"max_br":N}}, authentication with the key K and the version V
\* is {"remote":{"auth/key":{"key":K,"version":V}}}.
C29_OneKeyNamesTheKind ==
    ser_msg /= <<>> =>
        /\ OneTopLevelKey(ser_msg, KindOfRequest(ser_req))
        /\ ser_req.name = "Keepalive" => Join(ser_msg) = "{\"keepalive\":null}"
        /\ ser_req = NewtypeVariant("Command", UnitVariant("Reboot")) =>
                Join(ser_msg) = "{\"command\":\"reboot\"}"
        /\ ser_req.name = "Bitrate" =>
                Join(ser_msg) = "{\"bitrate\":{\"max_br\":"
                                    \o ToString(ser_req.kids[1].kids[1].kids[1].n) \o "}}"
        /\ (ser_req.name = "Remote" /\ ser_req.kids[1].name = "AuthKey") =>
                Join(ser_msg) = "{\"remote\":{\"auth/key\":{\"key\":\""
                                    \o ser_req.kids[1].kids[1].kids[1].s
                                    \o "\",\"version\":"
                                    \o ToString(ser_req.kids[1].kids[2].kids[1].n) \o "}}}"
\* the authentication request of the test of requests.rs, serialized
C29_Witness ==
    /\ ser_req.name = "Remote"
    /\ Join(ser_msg) = "{\"remote\":{\"auth/key\":{\"key\":\"testkey\",\"version\":6}}}"

\* the task that holds the write lock is in the middle of sending a chat
\* message or an intent
HolderIsSending ==
    \/ bs_writer = "notifications" /\ nt_pc = "send"
    \/ bs_writer = "restart" /\ rs_pc \in {"stop", "reboot", "refused"}
    \/ bs_writer = "ups" /\ up_pc = "send"

\* C30: the write lock of the cache is held only while one event is folded
\* or one mutation applied, never across a network round trip: in no
\* reachable state does a task hold it while its chat send or its intent
\* send is in progress.
C30_Original == ~HolderIsSending

\* the events of some kinds that have been folded, the last of them last
OfKinds(kinds) == SelectSeq(ev_log, LAMBDA e : e.kind \in kinds)
Last(q) == q[Len(q)]

\* what folding the events alone makes of each field
EvStreaming ==
    LET q == OfKinds({"status", "streaming_status"})
    IN  IF q = <<>> THEN FALSE ELSE Last(q).flag
EvOnline ==
    LET q == OfKinds({"remote_encoder"})
    IN  IF q = <<>> THEN FALSE ELSE Last(q).flag
EvNetif ==
    LET q == OfKinds({"netif"})
    IN  IF q = <<>> THEN <<>> ELSE Last(q).tab
EvSensors ==
    LET q == OfKinds({"sensors"})
    IN  IF q = <<>> THEN <<>> ELSE <<[soc_voltage |-> Last(q).n]>>
EvConfig ==
    LET cfgs == {i \in 1..Len(ev_log) : ev_log[i].kind = "config"}
        last == CHOOSE i \in cfgs : \A j \in cfgs : j <= i
        brs == {i \in 1..Len(ev_log) : ev_log[i].kind = "bitrate" /\ i > last}
        lastbr == CHOOSE i \in brs : \A j \in brs : j <= i
    IN  IF cfgs = {} THEN <<>>
        ELSE IF brs = {} THEN <<ConfigOf(ev_log[last].n)>>
        ELSE <<[ConfigOf(ev_log[last].n) EXCEPT !.max_br = ev_log[lastbr].n]>>

FoldOfFlagsAndTables ==
    /\ bela_state.is_streaming = EvStreaming
    /\ bela_state.online = EvOnline
    /\ bela_state.netif = EvNetif
    /\ bela_state.sensors = EvSensors

\* C31 (as stated): whenever the task that folds the events does not hold the
\* write guard, is_streaming, online, netif, sensors and config are what
\* folding the events processed so far gives (a bitrate event replacing only
\* max_br of the config there is).
C31_Original ==
    bs_writer /= "updater" =>
        /\ FoldOfFlagsAndTables
        /\ bela_state.config = EvConfig

\* the values a bitrate command wrote after its intent resolved Ok
CommandWrote ==
    {log[i].req[1].max_br : i \in {j \in 1..Len(log) : log[j].op = "bitrate" /\ log[j].res = "ok"}}

\* C31: whenever the task that folds the events does not hold the write
\* guard, is_streaming, online, netif and sensors are those of the last
\* event of their kind, and config is that of the last config event with
\* max_br replaced by the later bitrate events, except that max_br may
\* instead be the value a bitrate command wrote.
C31_FoldOfTheEvents ==
    bs_writer /= "updater" =>
        /\ FoldOfFlagsAndTables
        /\ (bela_state.config = <<>>) = (EvConfig = <<>>)
        /\ bela_state.config /= <<>> =>
            /\ [bela_state.config[1] EXCEPT !.max_br = 0] = [EvConfig[1] EXCEPT !.max_br = 0]
            /\ bela_state.config[1].max_br \in {EvConfig[1].max_br} \cup CommandWrote

\* events of three kinds have been folded, a bitrate event onto a config
\* among them, and the cache is their fold
C31_Witness ==
    /\ Len(ev_log) = MaxEvents
    /\ upd_pc = "recv"
    /\ \E i, j \in 1..Len(ev_log) :
        /\ i < j
        /\ ev_log[i].kind = "config"
        /\ ev_log[j].kind = "bitrate"
        /\ ev_log[j].n /= ev_log[i].n
    /\ bela_state.is_streaming
    /\ bela_state.config = EvConfig

\* C32 (as stated): the keepalive task spawned for a connection writes its
\* keepalive frames only on the writer of that connection, never on the
\* writer of a later one.
C32_Original ==
    [][\A c \in Conns : TickerWriteOk(c) => request_write = c]_vars

\* a restart command has ended on the error of its stop or its reboot intent
RestartFailed ==
    /\ ch_cmd.kind = "restart"
    /\ ch_pc = "idle"
    /\ \E i \in 1..Len(log) : log[i].op \in {"stop", "reboot"} /\ Propagates(log[i].res)

\* C33 (as stated): a restart command that has failed on its stop or its
\* reboot intent leaves the restart-pending flag clear, so that the next
\* restart command is not refused because of it.
C33_Original == RestartFailed => ~RestartRefused(bela_state)

\* a pipeline or audio_src command has answered that its lookup found nothing
LookupNotFound ==
    /\ ch_cmd.kind \in {"pipeline", "audio_src"}
    /\ \E i \in 1..Len(log) : log[i] = Chat(RejectedText(ch_cmd.kind))

\* C34 (as stated): a pipeline or audio_src command whose lookup finds
\* nothing has sent no stop intent.
C34_Original ==
    LookupNotFound => \A i \in 1..Len(log) : log[i].op /= "stop"

\* a change given while the stream was running, with a configuration cached,
\* has stopped it, written the new value and answered with its success message
ChangedWhileStreaming ==
    /\ ch_cmd.kind \in ChangeKinds
    /\ ch_streaming
    /\ bela_state.config /= <<>>
    /\ \E i, j, k \in 1..Len(log) :
        /\ i < j
        /\ j < k
        /\ log[i] = Intent("stop", "ok", <<>>)
        /\ log[j] = Wrote(ch_cmd.kind)
        /\ log[k] = Chat(ChangedText(ch_cmd.kind))

\* C35 (as stated): a change that stopped the running stream and wrote the
\* new value answers with its success message only after a start intent has
\* gone out, whether or not a status event was folded during the settle
\* delay.
C35_Original ==
    ChangedWhileStreaming =>
        \E j, k \in 1..Len(log) :
            /\ j < k
            /\ log[j].op = "start"
            /\ log[k] = Chat(ChangedText(ch_cmd.kind))

\* C36 (as stated): whatever network commands are given and whenever the
\* appliance reports its table, the netif intents sent, applied in order to
\* a table that had an interface enabled, leave an interface enabled.
C36_Original == \E k \in DOMAIN real_netif : real_netif[k].enabled

\* C37: the step of a bitrate command changes the cache only when its
\* bitrate intent resolved Ok, and then max_br becomes the value the intent
\* carried; when the intent resolves with Send or Disconnected the cache is
\* left as it was and the error is the response that ends the command.
C37_WritesOnlyAfterOk ==
    [][(ch_cmd.kind = "bitrate" /\ ch_pc = "dispatch" /\ ch_pc' /= "dispatch") =>
            /\ bela_state' /= bela_state =>
                /\ log'[1].op = "bitrate"
                /\ log'[1].res = "ok"
                /\ bela_state' = SetConfig(bela_state, "max_br", log'[1].req[1].max_br)
            /\ \A i \in 1..Len(log') :
                (log'[i].op = "bitrate" /\ log'[i].res \in {"send", "disconnected"}) =>
                    /\ bela_state' = bela_state
                    /\ log' = <<log'[i], Chat(ErrorText)>>]_vars
\* a bitrate command whose intent resolved with Send: the cached max_br is
\* still the one the appliance reported, and the answer is the error
C37_Witness ==
    /\ ch_cmd = [kind |-> "bitrate", arg |-> Num(3000)]
    /\ ch_pc = "idle"
    /\ log = <<Intent("bitrate", "send", <<[max_br |-> 3000]>>), Chat(ErrorText)>>
    /\ bela_state.config /= <<>>
    /\ bela_state.config[1].max_br = ApplianceConfig.max_br

\* C38 (as stated): a receiver of events that fell more than the capacity of
\* the channel behind loses the values overwritten and goes on receiving:
\* the loop of no receiver has ended on the lag.
C38_Original == \A s \in Subs : rx[s].st = "ended" => ~rx[s].lag

\* what tells two consecutive tables apart
Diff(previous, netif) ==
    Announcement(DOMAIN netif \ DOMAIN previous, DOMAIN previous \ DOMAIN netif)

\* C39 (as stated): for every table modems was called with, what it announced
\* is the difference to the table reported just before, and nothing for the
\* first table, however the monitor and the task that stores the tables
\* interleave.
C39_Original ==
    \A i \in 1..mo_n :
        announced[i] = IF i = 1 THEN Announcement({}, {})
                       ELSE Diff(net_evs[i - 1], net_evs[i])

\* the readings that carry a voltage, and the status of one: its voltage
\* without the thousandths is at least the threshold
WithVoltage == {i \in 1..Len(readings) : readings[i] /= <<>>}
StatusOf(i) == readings[i][1] - (readings[i][1] % 10) >= UpsPluggedIn
Before(i) == {j \in WithVoltage : j < i}
Previous(i) == CHOOSE j \in Before(i) : \A k \in Before(i) : k <= j

\* C40 (as stated): a reading that carries a voltage gets a notice exactly
\* when its plugged-in status, its voltage floored to two decimals being at
\* least the threshold, differs from that of the reading with a voltage
\* before it; the first such reading gets none, and notify_ups is the status
\* of the last reading with a voltage.
C40_Original ==
    /\ \A i \in WithVoltage :
        (notices[i] /= "none") = (Before(i) /= {} /\ StatusOf(i) /= StatusOf(Previous(i)))
    /\ notify_ups =
        IF WithVoltage = {} THEN <<>>
        ELSE <<StatusOf(CHOOSE i \in WithVoltage : \A k \in WithVoltage : k <= i)>>

====
